---- MODULE Spec2Model ----
(***************************************************************************)
(* Model of the offline-document cache (OfflineService), the annotation    *)
(* store (AnnotationService), the mock api and the authentication context  *)
(* (AuthProvider) of the "Portal do Aluno" mobile application.             *)
(*                                                                         *)
(* Execution model: one JavaScript event loop.  Every `await` of a storage *)
(* or filesystem call is a suspension point; an action of this model is    *)
(* the code that runs when a call is resumed together with the effect of   *)
(* the next storage/filesystem call it issues.  Several callers (Procs)    *)
(* interleave at these points.                                             *)
(***************************************************************************)
EXTENDS Integers, Sequences, FiniteSets, TLC

\* ------------------------------------------------------------------ bounds
MaxClock == 1        \* Date.now() ranges over 0..MaxClock
MaxCalls == 3        \* OfflineService calls issued in one behaviour
MaxAnnCalls == 2     \* AnnotationService calls issued in one behaviour
MaxAnnSeqCalls == 3  \* AnnotationService calls issued one at a time
MaxApiCalls == 3     \* api calls issued in one behaviour
MaxTripCalls == 2    \* calls issued in one behaviour of the round-trip runs
MaxAuthCalls == 3    \* login and logout calls and restarts in one behaviour

Procs == {1, 2}      \* independent callers sharing the event loop
Docs == {"d1", "d2"}
Clock == 0..MaxClock

\* ------------------------------------------------- strings and encodings
\* A string is a sequence of ASCII codes; a file holds a sequence of bytes.

Pad == 61

B64Code(i) ==
    IF i < 26 THEN 65 + i
    ELSE IF i < 52 THEN 97 + (i - 26)
    ELSE IF i < 62 THEN 48 + (i - 52)
    ELSE IF i = 62 THEN 43 ELSE 47

B64Index(c) ==
    IF c >= 65 /\ c <= 90 THEN c - 65
    ELSE IF c >= 97 /\ c <= 122 THEN c - 97 + 26
    ELSE IF c >= 48 /\ c <= 57 THEN c - 48 + 52
    ELSE IF c = 43 THEN 62
    ELSE IF c = 47 THEN 63
    ELSE -1

RECURSIVE EncodeBase64(_)
EncodeBase64(bytes) ==
    IF Len(bytes) = 0 THEN << >>
    ELSE IF Len(bytes) = 1 THEN
        << B64Code(bytes[1] \div 4), B64Code((bytes[1] % 4) * 16), Pad, Pad >>
    ELSE IF Len(bytes) = 2 THEN
        << B64Code(bytes[1] \div 4),
           B64Code((bytes[1] % 4) * 16 + bytes[2] \div 16),
           B64Code((bytes[2] % 16) * 4), Pad >>
    ELSE
        << B64Code(bytes[1] \div 4),
           B64Code((bytes[1] % 4) * 16 + bytes[2] \div 16),
           B64Code((bytes[2] % 16) * 4 + bytes[3] \div 64),
           B64Code(bytes[3] % 64) >>
        \o EncodeBase64(SubSeq(bytes, 4, Len(bytes)))

\* The strings that are base64 text: whole groups of four characters, padding
\* only at the end of the last group.
RECURSIVE IsBase64(_)
IsBase64(s) ==
    IF Len(s) = 0 THEN TRUE
    ELSE IF Len(s) < 4 THEN FALSE
    ELSE /\ B64Index(s[1]) >= 0
         /\ B64Index(s[2]) >= 0
         /\ \/ B64Index(s[3]) >= 0 /\ B64Index(s[4]) >= 0
               /\ IsBase64(SubSeq(s, 5, Len(s)))
            \/ B64Index(s[3]) >= 0 /\ s[4] = Pad /\ Len(s) = 4
            \/ s[3] = Pad /\ s[4] = Pad /\ Len(s) = 4

RECURSIVE DecodeBase64(_)
DecodeBase64(s) ==
    IF Len(s) = 0 THEN << >>
    ELSE IF s[3] = Pad THEN
        << B64Index(s[1]) * 4 + B64Index(s[2]) \div 16 >>
    ELSE IF s[4] = Pad THEN
        << B64Index(s[1]) * 4 + B64Index(s[2]) \div 16,
           (B64Index(s[2]) % 16) * 16 + B64Index(s[3]) \div 4 >>
    ELSE
        << B64Index(s[1]) * 4 + B64Index(s[2]) \div 16,
           (B64Index(s[2]) % 16) * 16 + B64Index(s[3]) \div 4,
           (B64Index(s[3]) % 4) * 64 + B64Index(s[4]) >>
        \o DecodeBase64(SubSeq(s, 5, Len(s)))

\* FileSystem.writeAsStringAsync(path, content, {encoding}): the bytes written.
CanWrite(content, encoding) ==
    encoding = "utf8" \/ IsBase64(content)

BytesOf(content, encoding) ==
    IF encoding = "base64" THEN DecodeBase64(content) ELSE content

\* FileSystem.readAsStringAsync(path, {encoding}): the string returned.
StringOf(bytes, encoding) ==
    IF encoding = "base64" THEN EncodeBase64(bytes) ELSE bytes

\* Contents the callers save: "" , "TQ==" , "TWE=" (base64) and "hi" (text).
Contents ==
    { << >>, <<84, 81, 61, 61>>, <<84, 87, 69, 61>>, <<104, 105>> }

Encodings == {"base64", "utf8"}

\* The content saved where the content is not the point: "TQ==".
Sample == <<84, 81, 61, 61>>

\* ------------------------------------------------------------- data model
NoPath == [id |-> "none", ts |-> -1]
NoMeta == [documentId |-> "none", localPath |-> NoPath, savedAt |-> -1]

\* `${OFFLINE_DIR}${document.id}_${Date.now()}.${document.type}`
LocalPath(documentId, timestamp) == [id |-> documentId, ts |-> timestamp]

\* docs.some(doc => doc.documentId === documentId)
HasMeta(docs, documentId) ==
    \E i \in 1..Len(docs) : docs[i].documentId = documentId

\* docs.find(doc => doc.documentId === documentId) || null
FindMeta(docs, documentId) ==
    IF HasMeta(docs, documentId)
    THEN docs[CHOOSE i \in 1..Len(docs) :
                /\ docs[i].documentId = documentId
                /\ \A j \in 1..(i - 1) : docs[j].documentId # documentId]
    ELSE NoMeta

\* A filter that drops nothing.
FilterDocsKeepAll(docs, documentId) == docs

\* A filter with the test inverted.
FilterDocsInverted(docs, documentId) ==
    SelectSeq(docs, LAMBDA d : d.documentId = documentId)

\* docs.filter(d => d.documentId !== documentId)
FilterDocs(docs, documentId) ==
    SelectSeq(docs, LAMBDA d : d.documentId # documentId)


\* ------------------------------------------------------------------ state
VARIABLES
    initialized,   \* OfflineService.initialized
    dirExists,     \* OFFLINE_DIR exists on disk
    files,         \* files below OFFLINE_DIR: path -> bytes
    store,         \* AsyncStorage entry OFFLINE_DOCS_KEY
    now,           \* the clock read by Date.now() and new Date()
    calls,         \* public calls issued so far
    proc,          \* per caller: the call in progress and its local variables
    seqPrev,       \* the last call, if it ran with no other call in progress
    seqPrev2,      \* the call before it, likewise
    lastSet,       \* the caller whose setItem of the metadata list came last
    failed,        \* per caller: a storage/filesystem call of its call failed
    everSaved,     \* documents saveDocumentOffline has been called for
    annStore,      \* AsyncStorage entry ANNOTATIONS_KEY
    aproc,         \* per caller: the AnnotationService call in progress
    annLastSet,    \* the caller whose write of the annotations entry came last
    uploadedDocuments,  \* api.ts: the module variable uploadedDocuments
    timers,        \* api.ts: the pending status timers of uploadDocument
    api,           \* per caller: the api call in progress
    state,         \* AuthProvider: the AuthState held by useState
    authStore,     \* AsyncStorage entry AUTH_STORAGE_KEY
    auth,          \* per caller: the login or logout call in progress
    loader,        \* the loadStoredSession call the mount effect started
    authPrev,      \* the last login or logout, if it ran with no other call
    fresh          \* no login or logout was called since the process started

offVars == << initialized, dirExists, files, store, now, calls, proc,
              seqPrev, seqPrev2, lastSet, failed, everSaved >>

annVars == << annStore, aproc, annLastSet >>

apiVars == << uploadedDocuments, timers, api >>

authVars == << state, authStore, auth, loader, authPrev, fresh >>

vars == << offVars, annVars, apiVars, authVars >>

NoCall == [op |-> "none", doc |-> "none", content |-> << >>, enc |-> "base64",
           stale |-> FALSE, meta |-> NoMeta, result |-> <<"void">>]

IdleProc == [pc |-> "idle", op |-> "none", doc |-> "none", content |-> << >>,
             enc |-> "base64", path |-> NoPath, docs |-> << >>,
             meta |-> NoMeta, result |-> <<"void">>, alone |-> FALSE,
             stale |-> FALSE]

Idle(p) == proc[p].pc \in {"idle", "done"}

AllIdle == \A p \in Procs : Idle(p)

\* AsyncStorage.getItem(OFFLINE_DOCS_KEY) followed by
\* `data ? JSON.parse(data) : []`; a failing read is caught and gives [].
GetOfflineDocumentsList(ok) ==
    IF ok /\ store.present THEN store.list ELSE << >>

\* AsyncStorage.setItem(OFFLINE_DOCS_KEY, JSON.stringify(docs)); a failing
\* write is caught and logged: the entry keeps its value.
SaveOfflineDocumentsList(docs, ok) ==
    IF ok THEN [present |-> TRUE, list |-> docs] ELSE store

FileExists(path) == path \in DOMAIN files

WriteFile(path, bytes) ==
    [q \in DOMAIN files \cup {path} |-> IF q = path THEN bytes ELSE files[q]]

DeleteFile(path) ==
    [q \in DOMAIN files \ {path} |-> files[q]]

NoFiles == [q \in {} |-> << >>]

\* A directory creation that rejects an existing directory.
MkdirOkStrict(intermediates) == ~dirExists

\* FileSystem.makeDirectoryAsync(OFFLINE_DIR, {intermediates}): with
\* intermediates an existing directory is not an error.
MkdirOk(intermediates) == intermediates \/ ~dirExists

\* ------------------------------------------------------ annotation data
Rnd == {"r1", "r2"}      \* Math.random().toString(36).substr(2, 9)

NoId == [ts |-> -1, rnd |-> "none"]

\* What a caller passes to addAnnotation: an annotation without id and
\* createdAt.
AnnInputs ==
    { [type |-> "note", page |-> 1, color |-> "#fbbf24"] }

NoInput == [type |-> "none", page |-> 0, color |-> "none"]

\* An annotation built without the page its caller supplied.
NewAnnotationNoPage(input, timestamp, random) ==
    [id |-> [ts |-> timestamp, rnd |-> random], type |-> input.type,
     page |-> 0, color |-> input.color, createdAt |-> timestamp]

\* { ...annotation, id: `ann_${Date.now()}_${random}`, createdAt: new Date() }
NewAnnotation(input, timestamp, random) ==
    [id |-> [ts |-> timestamp, rnd |-> random], type |-> input.type,
     page |-> input.page, color |-> input.color, createdAt |-> timestamp]

NoAnnotation == NewAnnotation(NoInput, -1, "none")

\* Partial<Annotation> values passed to updateAnnotation.
UpdInputs ==
    { [page |-> 3, color |-> "#ef4444"] }

NoUpdate == [f \in {} |-> 0]

\* A merge that keeps of the annotation only what the updates name.
MergeAnnotationReplacing(a, updates) ==
    [f \in DOMAIN a \cup DOMAIN updates |->
        IF f \in DOMAIN updates THEN updates[f] ELSE NoAnnotation[f]]

\* { ...annotations[index], ...updates }
MergeAnnotation(a, updates) ==
    [f \in DOMAIN a \cup DOMAIN updates |->
        IF f \in DOMAIN updates THEN updates[f] ELSE a[f]]

\* allAnnotations.findIndex(d => d.documentId === documentId); 0 for -1
GroupIndex(all, documentId) ==
    IF \E i \in 1..Len(all) : all[i].documentId = documentId
    THEN CHOOSE i \in 1..Len(all) :
            /\ all[i].documentId = documentId
            /\ \A j \in 1..(i - 1) : all[j].documentId # documentId
    ELSE 0

\* allAnnotations.find(d => d.documentId === documentId)?.annotations || []
AnnotationsOf(all, documentId) ==
    IF GroupIndex(all, documentId) = 0 THEN << >>
    ELSE all[GroupIndex(all, documentId)].annotations

\* A write that keeps the annotations persisted meanwhile and adds the new
\* ones after them.
PutGroupMerging(all, documentId, annotations, updatedAt) ==
    LET index == GroupIndex(all, documentId)
        kept == IF index > 0 THEN all[index].annotations ELSE << >>
        added == SelectSeq(annotations,
                           LAMBDA a : \A i \in 1..Len(kept) : kept[i] # a)
        group == [documentId |-> documentId, annotations |-> kept \o added,
                  updatedAt |-> updatedAt]
    IN IF index > 0 THEN [all EXCEPT ![index] = group]
       ELSE Append(all, group)

\* A write that drops the document's group and puts the new one last.
PutGroupAtEnd(all, documentId, annotations, updatedAt) ==
    Append(SelectSeq(all, LAMBDA g : g.documentId # documentId),
           [documentId |-> documentId, annotations |-> annotations,
            updatedAt |-> updatedAt])

\* The collection saveAnnotations writes: the document's group replaced in
\* place, or appended when the document has none.
PutGroup(all, documentId, annotations, updatedAt) ==
    LET group == [documentId |-> documentId, annotations |-> annotations,
                  updatedAt |-> updatedAt]
        index == GroupIndex(all, documentId)
    IN IF index > 0 THEN [all EXCEPT ![index] = group]
       ELSE Append(all, group)

\* A filter that keeps the matching annotations instead of the others.
FilterAnnotationsInverted(annotations, annotationId) ==
    SelectSeq(annotations, LAMBDA a : a.id = annotationId)

\* annotations.filter(a => a.id !== annotationId)
FilterAnnotations(annotations, annotationId) ==
    SelectSeq(annotations, LAMBDA a : a.id # annotationId)

\* A search that settles for the first annotation, whatever its id.
AnnotationIndexFirst(annotations, annotationId) ==
    IF Len(annotations) > 0 THEN 1 ELSE 0

\* annotations.findIndex(a => a.id === annotationId); 0 for -1
AnnotationIndex(annotations, annotationId) ==
    IF \E i \in 1..Len(annotations) : annotations[i].id = annotationId
    THEN CHOOSE i \in 1..Len(annotations) :
            /\ annotations[i].id = annotationId
            /\ \A j \in 1..(i - 1) : annotations[j].id # annotationId
    ELSE 0

\* allAnnotations.filter(d => d.documentId !== documentId)
FilterGroups(all, documentId) ==
    SelectSeq(all, LAMBDA g : g.documentId # documentId)

\* What is kept of the call that came right before the call of a caller.
NoBefore == [op |-> "none", doc |-> "none", annId |-> NoId,
             prior |-> << >>, newAnn |-> NoAnnotation, result |-> <<"void">>]

\* ---------------------------------------------------------- api.ts data
Statuses == {"enviado", "em_analise", "aprovado", "rejeitado"}

\* The arguments of uploadDocument: title, category, fileUri, fileName,
\* fileSize.
UploadInputs ==
    { [title |-> "Atestado", category |-> "atestado",
       fileUri |-> "file:///a.pdf", fileName |-> "a.pdf", fileSize |-> "1 KB"],
      [title |-> "Requerimento", category |-> "requerimento",
       fileUri |-> "file:///b.pdf", fileName |-> "b.pdf",
       fileSize |-> "2 KB"] }

NoUpload == [title |-> "none", category |-> "none", fileUri |-> "none",
             fileName |-> "none", fileSize |-> "none"]

\* Date.now().toString(): the decimal text of the timestamp.
TimestampText(n) == <<"text", n>>

\* new Date().toISOString().split('T')[0]: the day of the timestamp, a day
\* lasting DayLength clock values.
DayLength == 2

DateOf(timestamp) == timestamp \div DayLength

\* The record uploadDocument builds.
NewDocument(input, timestamp) ==
    [id |-> TimestampText(timestamp), title |-> input.title,
     category |-> input.category, status |-> "enviado",
     uploadDate |-> DateOf(timestamp), fileUri |-> input.fileUri,
     fileName |-> input.fileName, fileSize |-> input.fileSize]

\* uploadedDocuments.findIndex(d => d.id === id); 0 for -1
DocumentIndex(documents, id) ==
    IF \E i \in 1..Len(documents) : documents[i].id = id
    THEN CHOOSE i \in 1..Len(documents) :
            /\ documents[i].id = id
            /\ \A j \in 1..(i - 1) : documents[j].id # id
    ELSE 0

\* uploadedDocuments[docIndex] = { ...uploadedDocuments[docIndex], status }
WithStatus(documents, docIndex, status) ==
    [documents EXCEPT ![docIndex] = [@ EXCEPT !.status = status]]

\* constants/index.ts: the one credential pair and the user of the mock.
MOCK_CREDENTIALS == [matricula |-> "123456", senha |-> "aluno123"]

MOCK_USER == [id |-> "1", name |-> "Joao da Silva", matricula |-> "123456",
              email |-> "joao.silva@escola.com", turma |-> "9o Ano A",
              serie |-> "Ensino Fundamental"]

\* The arguments callers pass to login.
Matriculas == {"123456", "654321", "aluno123"}
Senhas == {"aluno123", "123456", ""}

NoCredentials == [matricula |-> "none", senha |-> "none"]

\* A login that accepts a pair of which one half is right.
LoginEitherMatches(matricula, senha) ==
    IF matricula = MOCK_CREDENTIALS.matricula \/ senha = MOCK_CREDENTIALS.senha
    THEN [success |-> TRUE, user |-> MOCK_USER,
          token |-> "mock-jwt-token-123456"]
    ELSE [success |-> FALSE, error |-> "Matricula ou senha incorretos"]

\* The response of api.login: an absent field (undefined) is a field the
\* record does not have.
Login(matricula, senha) ==
    IF matricula = MOCK_CREDENTIALS.matricula /\ senha = MOCK_CREDENTIALS.senha
    THEN [success |-> TRUE, user |-> MOCK_USER,
          token |-> "mock-jwt-token-123456"]
    ELSE [success |-> FALSE, error |-> "Matricula ou senha incorretos"]

IdleApi == [pc |-> "idle", op |-> "none", input |-> NoUpload,
            id |-> TimestampText(-1), status |-> "none",
            credentials |-> NoCredentials, result |-> <<"void">>]

ApiIdle(p) == api[p].pc \in {"idle", "done"}

\* ------------------------------------------------- AuthProvider data
\* A JavaScript value is a tagged tuple: null, undefined, a string, an
\* object.  An object is a record of the fields it has.
JNull == <<"null">>
JUndefined == <<"undefined">>
JStr(s) == <<"str", s>>
JObj(fields) == <<"obj", fields>>

\* The truthiness `storedData`, `user && token` and `response.user` are
\* tested for.
Truthy(v) ==
    CASE v[1] \in {"null", "undefined"} -> FALSE
      [] v[1] = "str" -> v[2] # ""
      [] OTHER -> TRUE

\* `user && token` tested on the token alone.
BothTruthyTokenOnly(user, token) == Truthy(token)

\* user && token
BothTruthy(user, token) == Truthy(user) /\ Truthy(token)

\* JSON.stringify(value): the text of the value.  A field that is undefined
\* is a field the object does not have, so it is not in the text.
Stringify(value) == <<"json", value>>

\* JSON.parse(text): the value, or a throw for a text that is not JSON.
Parse(text) ==
    IF text[1] = "json" THEN <<"value", text[2]>> ELSE <<"throw">>

\* const { user, token } = value: a throw when value is null, otherwise
\* each field or undefined.
Destructure(value) ==
    IF value[1] = "null" THEN <<"throw">>
    ELSE <<"fields",
           [f \in {"user", "token"} |->
               IF value[1] = "obj" /\ f \in DOMAIN value[2]
               THEN value[2][f] ELSE JUndefined]>>

\* A session stored without its token.
SessionOfUserOnly(response) ==
    JObj([f \in {"user"} \cap DOMAIN response |-> JObj(response[f])])

\* { user: response.user, token: response.token }
SessionOf(response) ==
    JObj([f \in {"user", "token"} \cap DOMAIN response |->
            IF f = "user" THEN JObj(response[f]) ELSE JStr(response[f])])

TheToken == JStr("mock-jwt-token-123456")

\* The entry under AUTH_STORAGE_KEY: absent, or a text.
NoEntry == [present |-> FALSE, text |-> <<"none">>]

Entry(text) == [present |-> TRUE, text |-> text]

\* What the process may find stored when it starts: nothing, the session a
\* login wrote, and texts no login writes: an empty text, a text that is
\* not JSON, null, and objects that lack a field or hold null or "" in it.
StoredEntries ==
    { NoEntry,
      Entry(Stringify(JObj([user |-> JObj(MOCK_USER), token |-> TheToken]))),
      Entry(<<"empty">>),
      Entry(<<"text", "not json">>),
      Entry(Stringify(JNull)),
      Entry(Stringify(JObj([user |-> JObj(MOCK_USER)]))),
      Entry(Stringify(JObj([token |-> TheToken]))),
      Entry(Stringify(JObj([user |-> JNull, token |-> TheToken]))),
      Entry(Stringify(JObj([user |-> JObj(MOCK_USER), token |-> JStr("")]))) }

\* AsyncStorage.getItem(AUTH_STORAGE_KEY): the text, or null.
GetItem(entry) ==
    IF ~entry.present THEN JNull
    ELSE IF entry.text[1] = "empty" THEN JStr("")
    ELSE <<"text", entry.text>>

\* useState's initial AuthState.
InitialState == [user |-> JNull, isAuthenticated |-> FALSE, isLoading |-> TRUE]

\* The credentials the login screen passes: the right pair and a wrong one.
AuthInputs == { MOCK_CREDENTIALS, [matricula |-> "123456", senha |-> "123456"] }

IdleAuth == [pc |-> "idle", op |-> "none", credentials |-> NoCredentials,
             response |-> [success |-> FALSE], result |-> <<"void">>,
             alone |-> FALSE, failed |-> FALSE]

AuthIdle(p) == auth[p].pc \in {"idle", "done"}

AllAuthIdle == \A p \in Procs : AuthIdle(p)

\* The loadStoredSession call the mount effect starts.
Loading == [pc |-> "load_get", storedData |-> JNull]

Loaded == [pc |-> "done", storedData |-> JNull]

NoAuthCall == [op |-> "none", result |-> <<"void">>]

IdleAnn == [pc |-> "idle", op |-> "none", doc |-> "none", input |-> NoInput,
            rnd |-> "none", annId |-> NoId, updates |-> NoUpdate,
            prior |-> << >>, annotations |-> << >>, all |-> << >>,
            newAnn |-> NoAnnotation, result |-> <<"void">>, alone |-> FALSE,
            before |-> NoBefore]

AnnIdle(p) == aproc[p].pc \in {"idle", "done"}

InitBut ==
    /\ initialized = FALSE
    /\ dirExists = FALSE
    /\ files = NoFiles
    /\ store = [present |-> FALSE, list |-> << >>]
    /\ now = 0
    /\ calls = 0
    /\ proc = [p \in Procs |-> IdleProc]
    /\ seqPrev = NoCall
    /\ seqPrev2 = NoCall
    /\ lastSet = 0
    /\ failed = [p \in Procs |-> FALSE]
    /\ everSaved = {}
    /\ annStore = [present |-> FALSE, list |-> << >>]
    /\ aproc = [p \in Procs |-> IdleAnn]
    /\ annLastSet = 0
    /\ uploadedDocuments = << >>
    /\ timers = << >>
    /\ api = [p \in Procs |-> IdleApi]
    /\ state = InitialState
    /\ auth = [p \in Procs |-> IdleAuth]
    /\ loader = Loading
    /\ authPrev = NoAuthCall
    /\ fresh = TRUE

\* The application starts with nothing stored.
Init == InitBut /\ authStore = NoEntry

\* The application starts with whatever an earlier process left under
\* AUTH_STORAGE_KEY.
InitStored == InitBut /\ authStore \in StoredEntries

\* ------------------------------------------------------- call and return
\* A save that returns true when a call inside it throws.
OnThrowTrue(op) ==
    IF op = "init" THEN <<"throw">>
    ELSE IF op = "getContent" THEN <<"null">>
    ELSE <<"bool", TRUE>>

\* The value a call completes with when a storage or filesystem call inside
\* it throws: init has no handler, the others return their default.
OnThrow(op) ==
    IF op = "init" THEN <<"throw">>
    ELSE IF op = "getContent" THEN <<"null">>
    ELSE <<"bool", FALSE>>

\* The first suspension point of an operation.  init() tests `initialized`
\* synchronously, so a call that finds it set never touches the filesystem.
FirstPc(op) ==
    CASE op = "init"       -> IF initialized THEN "init_ret" ELSE "init_info"
      [] op = "save"       -> IF initialized THEN "save_write" ELSE "init_info"
      [] op = "clear"      -> IF initialized THEN "clr_info" ELSE "init_info"
      [] op = "getContent" -> "get_meta"
      [] op = "remove"     -> "rm_meta"
      [] OTHER             -> "q_list"

Others(p) == Procs \ {p}

\* Caller p issues a call.  Callers are interchangeable, so a call takes the
\* first free one; what the callers that have returned were left holding is
\* dropped.
Start(p, op, doc, content, enc) ==
    /\ Idle(p)
    /\ \A q \in Procs : q < p => ~Idle(q)
    /\ calls < MaxCalls
    /\ calls' = calls + 1
    /\ proc' = [q \in Procs |->
                 IF q = p
                 THEN [IdleProc EXCEPT !.pc = FirstPc(op), !.op = op,
                         !.doc = doc, !.content = content, !.enc = enc,
                         !.alone = \A r \in Others(p) : Idle(r)]
                 ELSE IF Idle(q) THEN IdleProc
                 ELSE [proc[q] EXCEPT !.alone = FALSE]]
    /\ failed' = [q \in Procs |-> IF q = p \/ Idle(q) THEN FALSE ELSE failed[q]]
    /\ everSaved' = IF op = "save" THEN everSaved \cup {doc} ELSE everSaved
    /\ UNCHANGED << initialized, dirExists, files, store, now, seqPrev,
                    seqPrev2, lastSet >>

\* The call of p completes with result r.
Finish(p, r, path, docs, meta) ==
    /\ proc' = [proc EXCEPT ![p].pc = "done", ![p].result = r,
                  ![p].path = path, ![p].docs = << >>, ![p].meta = meta]
    /\ seqPrev' = IF proc[p].alone
                  THEN [op |-> proc[p].op, doc |-> proc[p].doc,
                        content |-> proc[p].content, enc |-> proc[p].enc,
                        stale |-> proc[p].stale, meta |-> meta,
                        result |-> r]
                  ELSE NoCall
    /\ seqPrev2' = IF proc[p].alone THEN seqPrev ELSE NoCall

Fail(p) ==
    Finish(p, OnThrow(proc[p].op), proc[p].path, proc[p].docs, proc[p].meta)

Goto(p, pc) ==
    /\ proc' = [proc EXCEPT ![p].pc = pc]
    /\ UNCHANGED << seqPrev, seqPrev2 >>

\* ------------------------------------------------------------------ init
CallInit(p) == Start(p, "init", "none", << >>, "base64")

\* const dirInfo = await FileSystem.getInfoAsync(OFFLINE_DIR)
InitInfo(p, ok) ==
    /\ proc[p].pc = "init_info"
    /\ IF ok
       THEN Goto(p, IF dirExists THEN "init_set" ELSE "init_mkdir")
       ELSE Fail(p)
    /\ UNCHANGED << initialized, dirExists, files, store, now, calls, lastSet >>

\* await FileSystem.makeDirectoryAsync(OFFLINE_DIR, { intermediates: true })
InitMkdir(p, ok) ==
    /\ proc[p].pc = "init_mkdir"
    /\ IF ok /\ MkdirOk(TRUE)
       THEN dirExists' = TRUE /\ Goto(p, "init_set")
       ELSE Fail(p) /\ UNCHANGED dirExists
    /\ UNCHANGED << initialized, files, store, now, calls, lastSet >>

\* Where init() returns to.
AfterInit(op) ==
    CASE op = "save"  -> "save_write"
      [] op = "clear" -> "clr_info"
      [] OTHER        -> "init_ret"

\* this.initialized = true
InitSet(p) ==
    /\ proc[p].pc = "init_set"
    /\ initialized' = TRUE
    /\ Goto(p, AfterInit(proc[p].op))
    /\ UNCHANGED << dirExists, files, store, now, calls, lastSet >>

\* init() called by itself resolves.
InitReturn(p) ==
    /\ proc[p].pc = "init_ret"
    /\ Finish(p, <<"void">>, proc[p].path, proc[p].docs, proc[p].meta)
    /\ UNCHANGED << initialized, dirExists, files, store, now, calls, lastSet >>

\* --------------------------------------------------- saveDocumentOffline
CallSave(p) ==
    \E d \in Docs : Start(p, "save", d, Sample, "base64")

\* A save of any of the contents, as base64 or as text.
CallSaveAny(p) ==
    \E d \in Docs, c \in Contents, e \in Encodings : Start(p, "save", d, c, e)

\* fileName from Date.now(); FileSystem.writeAsStringAsync(localPath, ...)
SaveWrite(p, ok) ==
    /\ proc[p].pc = "save_write"
    /\ LET localPath == LocalPath(proc[p].doc, now) IN
       IF ok /\ dirExists /\ CanWrite(proc[p].content, proc[p].enc)
       THEN /\ files' = WriteFile(localPath,
                                  BytesOf(proc[p].content, proc[p].enc))
            /\ proc' = [proc EXCEPT ![p].pc = "save_getlist",
                                    ![p].path = localPath]
            /\ UNCHANGED << seqPrev, seqPrev2 >>
       ELSE Fail(p) /\ UNCHANGED files
    /\ UNCHANGED << initialized, dirExists, store, now, calls, lastSet >>

\* const docs = await this.getOfflineDocumentsList()
SaveGetList(p, ok) ==
    /\ proc[p].pc = "save_getlist"
    /\ proc' = [proc EXCEPT ![p].pc = "save_setlist",
                            ![p].docs = GetOfflineDocumentsList(ok)]
    /\ UNCHANGED << initialized, dirExists, files, store, now, calls,
                    seqPrev, seqPrev2, lastSet >>

\* A record whose path is rebuilt from the time of the metadata write.
NewMetaRebuiltPath(documentId, localPath, savedAt) ==
    [documentId |-> documentId, localPath |-> LocalPath(documentId, savedAt),
     savedAt |-> savedAt]

\* The metadata record of a save.
NewMeta(documentId, localPath, savedAt) ==
    [documentId |-> documentId, localPath |-> localPath, savedAt |-> savedAt]

\* The list a save writes: the prior entry of the document dropped, the new
\* record appended.
SavedList(docs, meta) ==
    Append(FilterDocs(docs, meta.documentId), meta)

\* await this.saveOfflineDocumentsList([...filteredDocs, meta]); return true
SaveSetList(p, ok) ==
    /\ proc[p].pc = "save_setlist"
    /\ LET meta == NewMeta(proc[p].doc, proc[p].path, now) IN
       /\ store' = SaveOfflineDocumentsList(SavedList(proc[p].docs, meta), ok)
       /\ Finish(p, <<"bool", TRUE>>, proc[p].path, proc[p].docs, meta)
    /\ lastSet' = IF ok THEN p ELSE lastSet
    /\ UNCHANGED << initialized, dirExists, files, now, calls >>

\* ----------------------------------------------------------------- clock
\* Time passes.  Date.now() is read where a save names its file and stamps
\* its record, where an annotation or a group is stamped and where an upload
\* builds its document, so the clock is advanced only in front of such a
\* reading.
Tick ==
    /\ now < MaxClock
    /\ \E p \in Procs : \/ proc[p].pc \in {"save_write", "save_setlist"}
                        \/ aproc[p].pc \in {"ann_saveall", "ann_saveset"}
                        \/ api[p].pc = "upl_delay"
    /\ now' = now + 1
    /\ UNCHANGED << initialized, dirExists, files, store, calls, proc,
                    seqPrev, seqPrev2, lastSet, failed, everSaved, annVars, apiVars, authVars >>


\* ---------------------------------- isDocumentOffline, getOfflineDocumentMeta
CallQuery(p) ==
    \/ \E d \in Docs : Start(p, "isOffline", d, << >>, "base64")
    \/ \E d \in Docs : Start(p, "getMeta", d, << >>, "base64")
    \/ Start(p, "getList", "none", << >>, "base64")

\* What the three read-only operations make of the list they read.
QueryResult(op, docs, documentId) ==
    CASE op = "isOffline" -> <<"bool", HasMeta(docs, documentId)>>
      [] op = "getMeta"   -> IF HasMeta(docs, documentId)
                             THEN <<"meta", FindMeta(docs, documentId)>>
                             ELSE <<"null">>
      [] OTHER            -> <<"list", docs>>

QueryList(p, ok) ==
    /\ proc[p].pc = "q_list"
    /\ LET docs == GetOfflineDocumentsList(ok) IN
       Finish(p, QueryResult(proc[p].op, docs, proc[p].doc),
              proc[p].path, docs, FindMeta(docs, proc[p].doc))
    /\ UNCHANGED << initialized, dirExists, files, store, now, calls, lastSet >>

\* --------------------------------------------- getOfflineDocumentContent
CallGetContent(p) ==
    \E d \in Docs : Start(p, "getContent", d, << >>, "base64")

CallGetContentAny(p) ==
    \E d \in Docs, e \in Encodings : Start(p, "getContent", d, << >>, e)

\* const meta = await this.getOfflineDocumentMeta(documentId)
GetMeta(p, ok) ==
    /\ proc[p].pc = "get_meta"
    /\ LET docs == GetOfflineDocumentsList(ok)
           meta == FindMeta(docs, proc[p].doc) IN
       IF meta = NoMeta
       THEN Finish(p, <<"null">>, proc[p].path, docs, meta)
       ELSE /\ proc' = [proc EXCEPT ![p].pc = "get_info", ![p].docs = docs,
                                    ![p].meta = meta]
            /\ UNCHANGED << seqPrev, seqPrev2 >>
    /\ UNCHANGED << initialized, dirExists, files, store, now, calls, lastSet >>

\* A read that goes on to the file whether it exists or not.
AfterGetInfoNoCleanup(exists) == "get_read"

\* if (!fileInfo.exists) { await this.removeOfflineDocument(documentId);
\* return null }, else the file is read.
AfterGetInfo(exists) == IF exists THEN "get_read" ELSE "rm_meta"

\* const fileInfo = await FileSystem.getInfoAsync(meta.localPath); a missing
\* file sends the call into removeOfflineDocument(documentId).
GetInfo(p, ok) ==
    /\ proc[p].pc = "get_info"
    /\ IF ~ok THEN Fail(p)
       ELSE /\ proc' = [proc EXCEPT
                          ![p].pc = AfterGetInfo(
                                       FileExists(proc[p].meta.localPath)),
                          ![p].stale = ~FileExists(proc[p].meta.localPath)]
            /\ UNCHANGED << seqPrev, seqPrev2 >>
    /\ UNCHANGED << initialized, dirExists, files, store, now, calls, lastSet >>

\* A read that always decodes as text.
ReadEncodingText(encoding) == "utf8"

\* The encoding getOfflineDocumentContent reads with.
ReadEncoding(encoding) == IF encoding = "base64" THEN "base64" ELSE "utf8"

\* const content = await FileSystem.readAsStringAsync(meta.localPath, ...)
GetRead(p, ok) ==
    /\ proc[p].pc = "get_read"
    /\ IF ok /\ FileExists(proc[p].meta.localPath)
       THEN Finish(p, <<"content", StringOf(files[proc[p].meta.localPath],
                                            ReadEncoding(proc[p].enc))>>,
                   proc[p].path, proc[p].docs, proc[p].meta)
       ELSE Fail(p)
    /\ UNCHANGED << initialized, dirExists, files, store, now, calls, lastSet >>

\* ------------------------------------------------- removeOfflineDocument
CallRemove(p) ==
    \E d \in Docs : Start(p, "remove", d, << >>, "base64")

\* const meta = await this.getOfflineDocumentMeta(documentId)
RemoveMeta(p, ok) ==
    /\ proc[p].pc = "rm_meta"
    /\ LET docs == GetOfflineDocumentsList(ok)
           meta == FindMeta(docs, proc[p].doc) IN
       proc' = [proc EXCEPT ![p].pc = IF meta = NoMeta THEN "rm_getlist"
                                       ELSE "rm_info",
                            ![p].docs = docs, ![p].meta = meta]
    /\ UNCHANGED << initialized, dirExists, files, store, now, calls,
                    seqPrev, seqPrev2, lastSet >>

\* const fileInfo = await FileSystem.getInfoAsync(meta.localPath)
RemoveInfo(p, ok) ==
    /\ proc[p].pc = "rm_info"
    /\ IF ~ok THEN Fail(p)
       ELSE Goto(p, IF FileExists(proc[p].meta.localPath) THEN "rm_delete"
                    ELSE "rm_getlist")
    /\ UNCHANGED << initialized, dirExists, files, store, now, calls, lastSet >>

\* await FileSystem.deleteAsync(meta.localPath): not idempotent, a file that
\* is gone by now makes it throw.
RemoveDelete(p, ok) ==
    /\ proc[p].pc = "rm_delete"
    /\ IF ok /\ FileExists(proc[p].meta.localPath)
       THEN files' = DeleteFile(proc[p].meta.localPath) /\ Goto(p, "rm_getlist")
       ELSE Fail(p) /\ UNCHANGED files
    /\ UNCHANGED << initialized, dirExists, store, now, calls, lastSet >>

\* const docs = await this.getOfflineDocumentsList()
RemoveGetList(p, ok) ==
    /\ proc[p].pc = "rm_getlist"
    /\ proc' = [proc EXCEPT ![p].pc = "rm_setlist",
                            ![p].docs = GetOfflineDocumentsList(ok)]
    /\ UNCHANGED << initialized, dirExists, files, store, now, calls,
                    seqPrev, seqPrev2, lastSet >>

\* What a completed removeOfflineDocument gives its caller: true, or null
\* when getOfflineDocumentContent called it for a stale record.
RemoveResult(op) ==
    IF op = "getContent" THEN <<"null">> ELSE <<"bool", TRUE>>

\* await this.saveOfflineDocumentsList(filteredDocs); return true
RemoveSetList(p, ok) ==
    /\ proc[p].pc = "rm_setlist"
    /\ store' = SaveOfflineDocumentsList(FilterDocs(proc[p].docs, proc[p].doc),
                                         ok)
    /\ Finish(p, RemoveResult(proc[p].op), proc[p].path, proc[p].docs,
              proc[p].meta)
    /\ lastSet' = IF ok THEN p ELSE lastSet
    /\ UNCHANGED << initialized, dirExists, files, now, calls >>

\* ---------------------------------------------- clearAllOfflineDocuments
CallClear(p) == Start(p, "clear", "none", << >>, "base64")

\* const dirInfo = await FileSystem.getInfoAsync(OFFLINE_DIR)
ClearInfo(p, ok) ==
    /\ proc[p].pc = "clr_info"
    /\ IF ok THEN Goto(p, IF dirExists THEN "clr_delete" ELSE "clr_removeitem")
       ELSE Fail(p)
    /\ UNCHANGED << initialized, dirExists, files, store, now, calls, lastSet >>

\* await FileSystem.deleteAsync(OFFLINE_DIR, { idempotent: true })
ClearDelete(p, ok) ==
    /\ proc[p].pc = "clr_delete"
    /\ IF ok
       THEN dirExists' = FALSE /\ files' = NoFiles /\ Goto(p, "clr_mkdir")
       ELSE Fail(p) /\ UNCHANGED << dirExists, files >>
    /\ UNCHANGED << initialized, store, now, calls, lastSet >>

\* await FileSystem.makeDirectoryAsync(OFFLINE_DIR, { intermediates: true })
ClearMkdir(p, ok) ==
    /\ proc[p].pc = "clr_mkdir"
    /\ IF ok /\ MkdirOk(TRUE)
       THEN dirExists' = TRUE /\ Goto(p, "clr_removeitem")
       ELSE Fail(p) /\ UNCHANGED dirExists
    /\ UNCHANGED << initialized, files, store, now, calls, lastSet >>

\* await AsyncStorage.removeItem(OFFLINE_DOCS_KEY); return true
ClearRemoveItem(p, ok) ==
    /\ proc[p].pc = "clr_removeitem"
    /\ IF ok
       THEN /\ store' = [present |-> FALSE, list |-> << >>]
            /\ Finish(p, <<"bool", TRUE>>, proc[p].path, proc[p].docs,
                      proc[p].meta)
            /\ lastSet' = p
       ELSE Fail(p) /\ UNCHANGED << store, lastSet >>
    /\ UNCHANGED << initialized, dirExists, files, now, calls >>

\* ------------------------------------------ the filesystem's other users
\* A cached file is deleted by something other than the service.
OutOfBandDelete ==
    /\ \E path \in DOMAIN files : files' = DeleteFile(path)
    /\ proc' = [q \in Procs |-> IF Idle(q) THEN proc[q]
                                ELSE [proc[q] EXCEPT !.alone = FALSE]]
    /\ seqPrev' = NoCall
    /\ seqPrev2' = NoCall
    /\ UNCHANGED << initialized, dirExists, store, now, calls, lastSet,
                    failed, everSaved >>
    /\ UNCHANGED << annVars, apiVars, authVars >>

\* The cache directory, with the files in it, is deleted by something other
\* than the service.
OutOfBandDeleteDir ==
    /\ dirExists
    /\ dirExists' = FALSE
    /\ files' = NoFiles
    /\ proc' = [q \in Procs |-> IF Idle(q) THEN proc[q]
                                ELSE [proc[q] EXCEPT !.alone = FALSE]]
    /\ seqPrev' = NoCall
    /\ seqPrev2' = NoCall
    /\ UNCHANGED << initialized, store, now, calls, lastSet, failed,
                    everSaved >>
    /\ UNCHANGED << annVars, apiVars, authVars >>

\* ------------------------------------------------------ AnnotationService
\* AsyncStorage.getItem(ANNOTATIONS_KEY), `data ? JSON.parse(data) : []`; a
\* failing read is caught and gives [].
GetAllDocumentAnnotations(ok) ==
    IF ok /\ annStore.present THEN annStore.list ELSE << >>

\* Annotation ids a caller passes to removeAnnotation and updateAnnotation:
\* the ids of the document's persisted annotations and one that matches none.
NoSuchId == [ts |-> 0, rnd |-> "r0"]

AnnIds(documentId) ==
    { AnnotationsOf(annStore.list, documentId)[i].id :
        i \in 1..Len(AnnotationsOf(annStore.list, documentId)) }
    \cup {NoSuchId}

\* Lists a caller hands to saveAnnotations.
SaveLists ==
    { << >>, << NewAnnotation([type |-> "note", page |-> 1,
                                color |-> "#fbbf24"], 0, "r1") >> }

AnnFirstPc(op) ==
    CASE op = "saveAnnotations"  -> "ann_saveall"
      [] op = "deleteDocument"   -> "ann_delget"
      [] op = "clearAll"         -> "ann_clear"
      [] OTHER                   -> "ann_get"

\* The call caller p has just completed, when no other call overlapped it.
Before(p) ==
    IF aproc[p].pc = "done" /\ aproc[p].alone
    THEN [op |-> aproc[p].op, doc |-> aproc[p].doc, annId |-> aproc[p].annId,
          prior |-> aproc[p].prior, newAnn |-> aproc[p].newAnn,
          result |-> aproc[p].result]
    ELSE NoBefore

AnnStart(p, op, doc, input, rnd, annId, updates, list) ==
    /\ AnnIdle(p)
    /\ \A q \in Procs : q < p => ~AnnIdle(q)
    /\ calls' = calls + 1
    /\ aproc' = [q \in Procs |->
                  IF q = p
                  THEN [IdleAnn EXCEPT !.pc = AnnFirstPc(op), !.op = op,
                          !.doc = doc, !.input = input, !.rnd = rnd,
                          !.annId = annId, !.updates = updates,
                          !.annotations = list,
                          !.alone = \A r \in Others(p) : AnnIdle(r),
                          !.before = Before(p)]
                  ELSE IF AnnIdle(q) THEN IdleAnn
                  ELSE [aproc[q] EXCEPT !.alone = FALSE]]
    /\ UNCHANGED << annStore, annLastSet, now >>

\* A call of any operation of the service, addAnnotation, updateAnnotation
\* and saveAnnotations with arguments from the given sets.
AnnCallOf(p, inputs, updates, lists) ==
    /\ \E d \in Docs :
        \/ AnnStart(p, "getAnnotations", d, NoInput, "none", NoId, NoUpdate,
                    << >>)
        \/ \E l \in lists :
             AnnStart(p, "saveAnnotations", d, NoInput, "none", NoId,
                      NoUpdate, l)
        \/ \E i \in inputs, r \in Rnd :
             AnnStart(p, "add", d, i, r, NoId, NoUpdate, << >>)
        \/ \E a \in AnnIds(d) :
             AnnStart(p, "remove", d, NoInput, "none", a, NoUpdate, << >>)
        \/ \E a \in AnnIds(d), u \in updates :
             AnnStart(p, "update", d, NoInput, "none", a, u, << >>)
        \/ AnnStart(p, "deleteDocument", d, NoInput, "none", NoId, NoUpdate,
                    << >>)
        \/ AnnStart(p, "clearAll", "none", NoInput, "none", NoId, NoUpdate,
                    << >>)
    /\ UNCHANGED << initialized, dirExists, files, store, proc, seqPrev,
                    seqPrev2, lastSet, failed, everSaved, apiVars, authVars >>

AnnCall(p) ==
    /\ calls < MaxAnnCalls
    /\ AnnCallOf(p, AnnInputs, UpdInputs, SaveLists)

AllAnnIdle == \A p \in Procs : AnnIdle(p)

\* More of what callers pass to updateAnnotation and saveAnnotations.
MoreUpdates == UpdInputs \cup { [color |-> "#22c55e"] }

MoreLists ==
    SaveLists \cup
    { << NewAnnotation([type |-> "note", page |-> 1, color |-> "#fbbf24"],
                       0, "r1"),
         NewAnnotation([type |-> "highlight", page |-> 2,
                        color |-> "#fde047"], 0, "r2") >> }

\* One call at a time: a call is issued when no other is in progress.
AnnSeqCall(p) ==
    /\ AllAnnIdle
    /\ calls < MaxAnnSeqCalls
    /\ AnnCallOf(p, AnnInputs, MoreUpdates, MoreLists)

\* The call of p completes with result r; of its local variables only the
\* arguments, the list it read and the annotation it built are kept for
\* inspection.
AnnFinish(p, r) ==
    aproc' = [aproc EXCEPT ![p] =
                [IdleAnn EXCEPT !.pc = "done", !.op = aproc[p].op,
                                !.doc = aproc[p].doc, !.result = r,
                                !.input = aproc[p].input,
                                !.annId = aproc[p].annId,
                                !.updates = aproc[p].updates,
                                !.prior = aproc[p].prior,
                                !.newAnn = aproc[p].newAnn,
                                !.alone = aproc[p].alone,
                                !.before = aproc[p].before]]

\* The first read of getAnnotations, addAnnotation, removeAnnotation and
\* updateAnnotation: `await this.getAnnotations(documentId)`, and what each
\* does with the list before it suspends again.
AnnGet(p, ok) ==
    /\ aproc[p].pc = "ann_get"
    /\ LET annotations == AnnotationsOf(GetAllDocumentAnnotations(ok),
                                        aproc[p].doc)
           filtered == FilterAnnotations(annotations, aproc[p].annId)
           index == AnnotationIndex(annotations, aproc[p].annId)
       IN CASE aproc[p].op = "getAnnotations" ->
                 AnnFinish(p, <<"list", annotations>>)
            [] aproc[p].op = "add" ->
                 aproc' = [aproc EXCEPT ![p].pc = "ann_saveall",
                                        ![p].prior = annotations,
                                        ![p].annotations = annotations]
            [] aproc[p].op = "remove" ->
                 IF Len(filtered) = Len(annotations)
                 THEN AnnFinish(p, <<"bool", FALSE>>)
                 ELSE aproc' = [aproc EXCEPT ![p].pc = "ann_saveall",
                                             ![p].prior = annotations,
                                             ![p].annotations = filtered]
            [] OTHER ->
                 IF index = 0
                 THEN AnnFinish(p, <<"bool", FALSE>>)
                 ELSE aproc' = [aproc EXCEPT ![p].pc = "ann_saveall",
                                   ![p].prior = annotations,
                                   ![p].annotations =
                                      [annotations EXCEPT ![index] =
                                         MergeAnnotation(annotations[index],
                                                         aproc[p].updates)]]
    /\ UNCHANGED << annStore, annLastSet, now, calls >>

\* addAnnotation builds the new annotation and pushes it; then
\* saveAnnotations: const allAnnotations = await getAllDocumentAnnotations()
AnnSaveAll(p, ok) ==
    /\ aproc[p].pc = "ann_saveall"
    /\ LET newAnn == NewAnnotation(aproc[p].input, now, aproc[p].rnd) IN
       aproc' = [aproc EXCEPT
                   ![p].pc = "ann_saveset",
                   ![p].newAnn = IF aproc[p].op = "add" THEN newAnn
                                 ELSE NoAnnotation,
                   ![p].annotations = IF aproc[p].op = "add"
                                      THEN Append(aproc[p].annotations, newAnn)
                                      ELSE aproc[p].annotations,
                   ![p].all = GetAllDocumentAnnotations(ok)]
    /\ UNCHANGED << annStore, annLastSet, now, calls >>

\* What the operation returns once saveAnnotations has returned saved: only
\* saveAnnotations itself passes the outcome on.
AfterSave(op, newAnn, saved) ==
    CASE op = "add"             -> <<"annotation", newAnn>>
      [] op = "saveAnnotations" -> <<"bool", saved>>
      [] OTHER                  -> <<"bool", TRUE>>

\* await AsyncStorage.setItem(ANNOTATIONS_KEY, JSON.stringify(allAnnotations))
AnnSaveSet(p, ok) ==
    /\ aproc[p].pc = "ann_saveset"
    /\ annStore' = IF ok
                   THEN [present |-> TRUE,
                         list |-> PutGroup(aproc[p].all, aproc[p].doc,
                                           aproc[p].annotations, now)]
                   ELSE annStore
    /\ annLastSet' = IF ok THEN p ELSE annLastSet
    /\ AnnFinish(p, AfterSave(aproc[p].op, aproc[p].newAnn, ok))
    /\ UNCHANGED << now, calls >>

\* deleteDocumentAnnotations: const allAnnotations = await getAll...()
AnnDeleteGet(p, ok) ==
    /\ aproc[p].pc = "ann_delget"
    /\ aproc' = [aproc EXCEPT ![p].pc = "ann_delset",
                              ![p].all = GetAllDocumentAnnotations(ok)]
    /\ UNCHANGED << annStore, annLastSet, now, calls >>

\* await AsyncStorage.setItem(ANNOTATIONS_KEY, JSON.stringify(filtered))
AnnDeleteSet(p, ok) ==
    /\ aproc[p].pc = "ann_delset"
    /\ annStore' = IF ok
                   THEN [present |-> TRUE,
                         list |-> FilterGroups(aproc[p].all, aproc[p].doc)]
                   ELSE annStore
    /\ annLastSet' = IF ok THEN p ELSE annLastSet
    /\ AnnFinish(p, <<"bool", ok>>)
    /\ UNCHANGED << now, calls >>

\* clearAllAnnotations: await AsyncStorage.removeItem(ANNOTATIONS_KEY)
AnnClear(p, ok) ==
    /\ aproc[p].pc = "ann_clear"
    /\ annStore' = IF ok THEN [present |-> FALSE, list |-> << >>] ELSE annStore
    /\ annLastSet' = IF ok THEN p ELSE annLastSet
    /\ AnnFinish(p, <<"bool", ok>>)
    /\ UNCHANGED << now, calls >>

AnnStep(p, ok) ==
    /\ \/ AnnGet(p, ok)
       \/ AnnSaveAll(p, ok)
       \/ AnnSaveSet(p, ok)
       \/ AnnDeleteGet(p, ok)
       \/ AnnDeleteSet(p, ok)
       \/ AnnClear(p, ok)
    /\ UNCHANGED << initialized, dirExists, files, store, proc, seqPrev,
                    seqPrev2, lastSet, failed, everSaved, apiVars, authVars >>

\* ----------------------------------------------------------------- api.ts
\* Caller p issues an api call, which first awaits delay(ms).
ApiStart(p, op, pc, input, id, status) ==
    /\ ApiIdle(p)
    /\ \A q \in Procs : q < p => ~ApiIdle(q)
    /\ calls < MaxApiCalls
    /\ calls' = calls + 1
    /\ api' = [q \in Procs |->
                IF q = p
                THEN [IdleApi EXCEPT !.pc = pc, !.op = op, !.input = input,
                                     !.id = id, !.status = status]
                ELSE IF ApiIdle(q) THEN IdleApi ELSE api[q]]
    /\ UNCHANGED << uploadedDocuments, timers, now >>

\* Ids a caller passes to updateDocumentStatus: those of the documents in
\* the list and one that matches none.
NoSuchDocument == TimestampText(-2)

DocumentIds ==
    { uploadedDocuments[i].id : i \in 1..Len(uploadedDocuments) }
    \cup {NoSuchDocument}

CallUpload(p) ==
    \E input \in UploadInputs :
        ApiStart(p, "upload", "upl_delay", input, TimestampText(-1), "none")

CallUpdateStatus(p) ==
    \E id \in DocumentIds, status \in {"aprovado", "rejeitado"} :
        ApiStart(p, "updateStatus", "upd_delay", NoUpload, id, status)

CallGetUploaded(p) ==
    ApiStart(p, "getUploaded", "get_delay", NoUpload, TimestampText(-1),
             "none")

ApiCall(p) ==
    /\ \/ CallUpload(p)
       \/ CallUpdateStatus(p)
       \/ CallGetUploaded(p)
    /\ UNCHANGED << initialized, dirExists, files, store, proc, seqPrev,
                    seqPrev2, lastSet, failed, everSaved, annVars, authVars >>

ApiFinish(p, r) ==
    api' = [api EXCEPT ![p].pc = "done", ![p].result = r]

\* A pending status timer: the id its callback captured.  With it are kept
\* the document the upload built and whether the list has since been reset
\* or a status set through that id.
Timer(document) ==
    [id |-> document.id, document |-> document, clean |-> TRUE]

\* uploadDocument after delay(1500): the new document is put first in the
\* list, the status timer is set, the document returned.
UploadResume(p) ==
    /\ api[p].pc = "upl_delay"
    /\ LET newDocument == NewDocument(api[p].input, now) IN
       /\ uploadedDocuments' = << newDocument >> \o uploadedDocuments
       /\ timers' = Append(timers, Timer(newDocument))
       /\ ApiFinish(p, <<"upload", TRUE, newDocument>>)
    /\ UNCHANGED << now, calls >>

\* The callback of the oldest status timer runs.
TimerFires ==
    /\ timers # << >>
    /\ LET docIndex == DocumentIndex(uploadedDocuments, Head(timers).id) IN
       uploadedDocuments' =
          IF docIndex > 0
          THEN WithStatus(uploadedDocuments, docIndex, "em_analise")
          ELSE uploadedDocuments
    /\ timers' = Tail(timers)
    /\ UNCHANGED << api, now, calls >>
    /\ UNCHANGED << initialized, dirExists, files, store, proc, seqPrev,
                    seqPrev2, lastSet, failed, everSaved, annVars, authVars >>

\* The timers, those of the given ids marked.
Touched(ids) ==
    [t \in 1..Len(timers) |->
        IF timers[t].id \in ids THEN [timers[t] EXCEPT !.clean = FALSE]
        ELSE timers[t]]

\* updateDocumentStatus after delay(500).
UpdateStatusResume(p) ==
    /\ api[p].pc = "upd_delay"
    /\ LET docIndex == DocumentIndex(uploadedDocuments, api[p].id) IN
       IF docIndex > 0
       THEN /\ uploadedDocuments' =
                  WithStatus(uploadedDocuments, docIndex, api[p].status)
            /\ ApiFinish(p, <<"success", TRUE>>)
       ELSE /\ UNCHANGED uploadedDocuments
            /\ ApiFinish(p, <<"success", FALSE>>)
    /\ timers' = Touched({api[p].id})
    /\ UNCHANGED << now, calls >>

\* getUploadedDocuments after delay(500): the list as it is at the return.
GetUploadedResume(p) ==
    /\ api[p].pc = "get_delay"
    /\ ApiFinish(p, <<"documents", uploadedDocuments>>)
    /\ UNCHANGED << uploadedDocuments, timers, now, calls >>

ApiResume(p) ==
    /\ \/ UploadResume(p)
       \/ UpdateStatusResume(p)
       \/ GetUploadedResume(p)
    /\ UNCHANGED << initialized, dirExists, files, store, proc, seqPrev,
                    seqPrev2, lastSet, failed, everSaved, annVars, authVars >>

\* Caller p calls api.login(matricula, senha), which first awaits
\* delay(1000).
CallLogin(p) ==
    /\ ApiIdle(p)
    /\ \A q \in Procs : q < p => ~ApiIdle(q)
    /\ calls < MaxApiCalls
    /\ calls' = calls + 1
    /\ \E matricula \in Matriculas, senha \in Senhas :
          api' = [q \in Procs |->
                   IF q = p
                   THEN [IdleApi EXCEPT
                           !.pc = "login_delay", !.op = "login",
                           !.credentials = [matricula |-> matricula,
                                            senha |-> senha]]
                   ELSE IF ApiIdle(q) THEN IdleApi ELSE api[q]]
    /\ UNCHANGED << uploadedDocuments, timers, now >>
    /\ UNCHANGED << initialized, dirExists, files, store, proc, seqPrev,
                    seqPrev2, lastSet, failed, everSaved, annVars, authVars >>

\* api.login after delay(1000): the credentials are compared, the response
\* returned.
LoginResume(p) ==
    /\ api[p].pc = "login_delay"
    /\ ApiFinish(p, <<"login", Login(api[p].credentials.matricula,
                                      api[p].credentials.senha)>>)
    /\ UNCHANGED << uploadedDocuments, timers, now, calls >>
    /\ UNCHANGED << initialized, dirExists, files, store, proc, seqPrev,
                    seqPrev2, lastSet, failed, everSaved, annVars, authVars >>

\* resetUploadedDocuments(): synchronous.
ResetUploadedDocuments ==
    /\ calls < MaxApiCalls
    /\ calls' = calls + 1
    /\ uploadedDocuments' = << >>
    /\ timers' = Touched({ timers[t].id : t \in 1..Len(timers) })
    /\ UNCHANGED << api, now >>
    /\ UNCHANGED << initialized, dirExists, files, store, proc, seqPrev,
                    seqPrev2, lastSet, failed, everSaved, annVars, authVars >>

\* ----------------------------------------------------------- AuthProvider
\* The frame of a step of the AuthProvider.
AuthFrame ==
    UNCHANGED << initialized, dirExists, files, store, now, proc, seqPrev,
                 seqPrev2, lastSet, failed, everSaved, annVars, apiVars >>

\* An update of isLoading that drops the user.
WithLoadingOnly(value) ==
    [user |-> JNull, isAuthenticated |-> FALSE, isLoading |-> value]

\* setState(prev => ({ ...prev, isLoading: value }))
WithLoading(value) == [state EXCEPT !.isLoading = value]

\* A state set as authenticated with no user.
AuthenticatedNoUser(user) ==
    [user |-> JNull, isAuthenticated |-> TRUE, isLoading |-> FALSE]

\* setState({ user, isAuthenticated: true, isLoading: false })
Authenticated(user) ==
    [user |-> user, isAuthenticated |-> TRUE, isLoading |-> FALSE]

\* setState({ user: null, isAuthenticated: false, isLoading: false })
Unauthenticated ==
    [user |-> JNull, isAuthenticated |-> FALSE, isLoading |-> FALSE]

\* Caller p calls login or logout.  The call takes the first free caller;
\* what the callers that have returned were left holding is dropped.
AuthStart(p, op, pc, credentials) ==
    /\ AuthIdle(p)
    /\ \A q \in Procs : q < p => ~AuthIdle(q)
    /\ calls < MaxAuthCalls
    /\ calls' = calls + 1
    /\ auth' = [q \in Procs |->
                 IF q = p
                 THEN [IdleAuth EXCEPT
                         !.pc = pc, !.op = op, !.credentials = credentials,
                         !.alone = /\ \A r \in Others(p) : AuthIdle(r)
                                   /\ loader.pc = "done"]
                 ELSE IF AuthIdle(q) THEN IdleAuth
                 ELSE [auth[q] EXCEPT !.alone = FALSE]]
    /\ fresh' = FALSE
    /\ UNCHANGED << authStore, loader, authPrev >>

\* The call of p returns r.
AuthFinish(p, r) ==
    /\ auth' = [auth EXCEPT ![p].pc = "done", ![p].result = r]
    /\ authPrev' = IF auth[p].alone THEN [op |-> auth[p].op, result |-> r]
                   ELSE NoAuthCall

\* What login returns from its catch block.
LoginError ==
    <<"result",
      [success |-> FALSE, error |-> "Erro ao fazer login. Tente novamente."]>>

\* login(matricula, senha): isLoading is set, api.login called.
CallAuthLogin(p) ==
    /\ \E credentials \in AuthInputs :
          AuthStart(p, "login", "login_api", credentials)
    /\ state' = WithLoading(TRUE)

\* logout(): AsyncStorage.removeItem is called.
CallLogout(p) ==
    /\ AuthStart(p, "logout", "logout_remove", NoCredentials)
    /\ UNCHANGED state

AuthCall(p) ==
    /\ \/ CallAuthLogin(p)
       \/ CallLogout(p)
    /\ AuthFrame

\* const response = await api.login(matricula, senha): a success with a
\* user goes on to store the session, anything else returns the error.
LoginApi(p) ==
    /\ auth[p].pc = "login_api"
    /\ LET response == Login(auth[p].credentials.matricula,
                             auth[p].credentials.senha) IN
       IF response.success /\ "user" \in DOMAIN response
       THEN /\ auth' = [auth EXCEPT ![p].pc = "login_set",
                                    ![p].response = response]
            /\ UNCHANGED << state, authPrev >>
       ELSE /\ state' = WithLoading(FALSE)
            /\ AuthFinish(p, <<"result",
                              [success |-> FALSE, error |-> response.error]>>)
    /\ UNCHANGED << authStore, loader, fresh, calls >>

\* await AsyncStorage.setItem(AUTH_STORAGE_KEY, JSON.stringify({...})): the
\* entry is written; a failure is caught, isLoading reset and the error
\* returned.
LoginSetItem(p, ok) ==
    /\ auth[p].pc = "login_set"
    /\ IF ok
       THEN /\ authStore' = Entry(Stringify(SessionOf(auth[p].response)))
            /\ auth' = [auth EXCEPT ![p].pc = "login_after"]
            /\ UNCHANGED << state, authPrev >>
       ELSE /\ state' = WithLoading(FALSE)
            /\ auth' = [auth EXCEPT
                          ![p].pc = "done", ![p].failed = TRUE,
                          ![p].result = LoginError]
            /\ authPrev' =
                  IF auth[p].alone
                  THEN [op |-> "login", result |-> LoginError]
                  ELSE NoAuthCall
            /\ UNCHANGED authStore
    /\ UNCHANGED << loader, fresh, calls >>

\* The login resumes after setItem: the state is set, success returned.
LoginAfterSet(p) ==
    /\ auth[p].pc = "login_after"
    /\ state' = Authenticated(JObj(auth[p].response.user))
    /\ AuthFinish(p, <<"result", [success |-> TRUE]>>)
    /\ UNCHANGED << authStore, loader, fresh, calls >>

\* await AsyncStorage.removeItem(AUTH_STORAGE_KEY): the entry is removed; a
\* failure is caught and logged, and the call returns.
LogoutRemoveItem(p, ok) ==
    /\ auth[p].pc = "logout_remove"
    /\ IF ok
       THEN /\ authStore' = NoEntry
            /\ auth' = [auth EXCEPT ![p].pc = "logout_after"]
            /\ UNCHANGED authPrev
       ELSE /\ auth' = [auth EXCEPT ![p].pc = "done", ![p].failed = TRUE]
            /\ authPrev' = IF auth[p].alone
                           THEN [op |-> "logout", result |-> <<"failed">>]
                           ELSE NoAuthCall
            /\ UNCHANGED authStore
    /\ UNCHANGED << state, loader, fresh, calls >>

\* The logout resumes after removeItem: the state is cleared.
LogoutAfterRemove(p) ==
    /\ auth[p].pc = "logout_after"
    /\ state' = Unauthenticated
    /\ AuthFinish(p, <<"void">>)
    /\ UNCHANGED << authStore, loader, fresh, calls >>

\* A step of the login or logout of p; ok tells whether its storage call
\* succeeds.
AuthStep(p, ok) ==
    /\ \/ LoginApi(p)
       \/ LoginSetItem(p, ok)
       \/ LoginAfterSet(p)
       \/ LogoutRemoveItem(p, ok)
       \/ LogoutAfterRemove(p)
    /\ AuthFrame

\* const storedData = await AsyncStorage.getItem(AUTH_STORAGE_KEY); a
\* failure is caught and leaves isLoading to be reset.
LoadGetItem(ok) ==
    /\ loader.pc = "load_get"
    /\ IF ok
       THEN /\ loader' = [pc |-> "load_after",
                          storedData |-> GetItem(authStore)]
            /\ UNCHANGED state
       ELSE /\ loader' = Loaded
            /\ state' = WithLoading(FALSE)
    /\ UNCHANGED << authStore, auth, authPrev, fresh, calls >>
    /\ AuthFrame

\* What loadStoredSession gets from the text it read: nothing (no text),
\* a throw (JSON.parse or the destructuring), or the two fields.
StoredFields(storedData) ==
    IF ~Truthy(storedData) THEN <<"none">>
    ELSE LET parsed == Parse(storedData[2]) IN
         IF parsed[1] = "throw" THEN <<"throw">>
         ELSE Destructure(parsed[2])

\* A load that restores a session on the token alone.
SessionStateTokenOnly(storedData) ==
    LET pair == StoredFields(storedData) IN
    IF pair[1] = "fields" /\ BothTruthyTokenOnly(pair[2].user, pair[2].token)
    THEN Authenticated(pair[2].user)
    ELSE WithLoading(FALSE)

\* The state loadStoredSession sets once the stored text is read.
SessionState(storedData) ==
    LET pair == StoredFields(storedData) IN
    IF pair[1] = "fields" /\ BothTruthy(pair[2].user, pair[2].token)
    THEN Authenticated(pair[2].user)
    ELSE WithLoading(FALSE)

\* loadStoredSession resumes after getItem.
LoadAfterGet ==
    /\ loader.pc = "load_after"
    /\ state' = SessionState(loader.storedData)
    /\ loader' = Loaded
    /\ UNCHANGED << authStore, auth, authPrev, fresh, calls >>
    /\ AuthFrame

\* The application process ends and starts again: the calls in progress
\* are gone, the AuthProvider mounts with its initial state and starts
\* loadStoredSession; the stored entry stays.
AuthRestart ==
    /\ calls < MaxAuthCalls
    /\ calls' = calls + 1
    /\ state' = InitialState
    /\ auth' = [p \in Procs |-> IdleAuth]
    /\ loader' = Loading
    /\ fresh' = TRUE
    /\ authPrev' = IF AllAuthIdle /\ loader.pc = "done" THEN authPrev
                   ELSE NoAuthCall
    /\ UNCHANGED authStore
    /\ AuthFrame

\* -------------------------------------------------------- specifications
Call(p) ==
    /\ \/ CallInit(p)
       \/ CallSave(p)
       \/ CallQuery(p)
       \/ CallGetContent(p)
       \/ CallRemove(p)
       \/ CallClear(p)
    /\ UNCHANGED << annVars, apiVars, authVars >>

\* A step of the call of p that makes a storage or filesystem call; ok tells
\* whether that call succeeds.
IoStep(p, ok) ==
    /\ \/ InitInfo(p, ok)
       \/ InitMkdir(p, ok)
       \/ SaveWrite(p, ok)
       \/ SaveGetList(p, ok)
       \/ SaveSetList(p, ok)
       \/ QueryList(p, ok)
       \/ GetMeta(p, ok)
       \/ GetInfo(p, ok)
       \/ GetRead(p, ok)
       \/ RemoveMeta(p, ok)
       \/ RemoveInfo(p, ok)
       \/ RemoveDelete(p, ok)
       \/ RemoveGetList(p, ok)
       \/ RemoveSetList(p, ok)
       \/ ClearInfo(p, ok)
       \/ ClearDelete(p, ok)
       \/ ClearMkdir(p, ok)
       \/ ClearRemoveItem(p, ok)
    /\ failed' = [failed EXCEPT ![p] = @ \/ ~ok]
    /\ UNCHANGED << everSaved, annVars, apiVars, authVars >>

\* A step of the call of p that runs code only.
LocalStep(p) ==
    /\ \/ InitSet(p)
       \/ InitReturn(p)
    /\ UNCHANGED << failed, everSaved, annVars, apiVars, authVars >>

\* Storage and filesystem calls all succeed.
Next ==
    \/ \E p \in Procs : Call(p)
    \/ \E p \in Procs : IoStep(p, TRUE)
    \/ \E p \in Procs : LocalStep(p)
    \/ Tick

Spec == Init /\ [][Next]_vars

\* Any storage or filesystem call may fail.
NextFail ==
    \/ \E p \in Procs : Call(p)
    \/ \E p \in Procs, ok \in BOOLEAN : IoStep(p, ok)
    \/ \E p \in Procs : LocalStep(p)
    \/ Tick

SpecFail == Init /\ [][NextFail]_vars

\* One call at a time: a call is issued when no other is in progress.
SeqCall(p) == AllIdle /\ Call(p)

NextSeq ==
    \/ \E p \in Procs : SeqCall(p)
    \/ \E p \in Procs : IoStep(p, TRUE)
    \/ \E p \in Procs : LocalStep(p)
    \/ Tick

SpecSeq == Init /\ [][NextSeq]_vars

\* One call at a time, and files may disappear behind the service's back.
NextOob ==
    \/ \E p \in Procs : SeqCall(p)
    \/ \E p \in Procs : IoStep(p, TRUE)
    \/ \E p \in Procs : LocalStep(p)
    \/ Tick
    \/ OutOfBandDelete

SpecOob == Init /\ [][NextOob]_vars

\* One call at a time; files and the cache directory itself may disappear
\* behind the service's back.
NextDirLost ==
    \/ \E p \in Procs : SeqCall(p)
    \/ \E p \in Procs : IoStep(p, TRUE)
    \/ \E p \in Procs : LocalStep(p)
    \/ Tick
    \/ OutOfBandDelete
    \/ OutOfBandDeleteDir

SpecDirLost == Init /\ [][NextDirLost]_vars

\* Saves and reads of every content in both encodings, one call at a time.
TripCall(p) ==
    /\ AllIdle
    /\ calls < MaxTripCalls
    /\ \/ CallSaveAny(p)
       \/ CallGetContentAny(p)
       \/ \E d \in Docs : Start(p, "isOffline", d, << >>, "base64")
    /\ UNCHANGED << annVars, apiVars, authVars >>

NextRoundTrip ==
    \/ \E p \in Procs : TripCall(p)
    \/ \E p \in Procs : IoStep(p, TRUE)
    \/ \E p \in Procs : LocalStep(p)
    \/ Tick

SpecRoundTrip == Init /\ [][NextRoundTrip]_vars

\* Only init and saveDocumentOffline are called.
SaveStep(p) ==
    /\ \/ InitInfo(p, TRUE)
       \/ InitMkdir(p, TRUE)
       \/ InitSet(p)
       \/ InitReturn(p)
       \/ SaveWrite(p, TRUE)
       \/ SaveGetList(p, TRUE)
       \/ SaveSetList(p, TRUE)
    /\ UNCHANGED << failed, everSaved, annVars, apiVars, authVars >>

NextSaves ==
    \/ \E p \in Procs : (CallInit(p) \/ CallSave(p))
                          /\ UNCHANGED << annVars, apiVars, authVars >>
    \/ \E p \in Procs : SaveStep(p)
    \/ Tick

SpecSaves == Init /\ [][NextSaves]_vars

\* The application process is restarted between calls: the new process has
\* a new OfflineService (initialized = false); the files and the stored
\* metadata stay.
ProcessRestart ==
    /\ AllIdle
    /\ initialized
    /\ initialized' = FALSE
    /\ UNCHANGED << dirExists, files, store, now, calls, proc, seqPrev,
                    seqPrev2, lastSet, failed, everSaved, annVars, apiVars, authVars >>

\* init, saveDocumentOffline and getOfflineDocumentContent, one call at a
\* time.
SaveReadCall(p) ==
    /\ AllIdle
    /\ \/ CallInit(p)
       \/ CallSave(p)
       \/ CallGetContent(p)
    /\ UNCHANGED << annVars, apiVars, authVars >>

\* The filesystem calls of init() and the file write of a save; ok tells
\* whether the call succeeds.
WriteStep(p, ok) ==
    /\ \/ InitInfo(p, ok)
       \/ InitMkdir(p, ok)
       \/ SaveWrite(p, ok)
    /\ failed' = [failed EXCEPT ![p] = @ \/ ~ok]
    /\ UNCHANGED << everSaved, annVars, apiVars, authVars >>

\* The other steps of a save and the steps of a read of a cached file.
ListStep(p) ==
    /\ \/ InitSet(p)
       \/ InitReturn(p)
       \/ SaveGetList(p, TRUE)
       \/ SaveSetList(p, TRUE)
       \/ GetMeta(p, TRUE)
       \/ GetInfo(p, TRUE)
       \/ GetRead(p, TRUE)
    /\ UNCHANGED << failed, everSaved, annVars, apiVars, authVars >>

\* Saves and reads one call at a time, across process restarts; init() and
\* the file write may fail, the other storage and filesystem calls succeed.
NextWriteFail ==
    \/ \E p \in Procs : SaveReadCall(p)
    \/ \E p \in Procs, ok \in BOOLEAN : WriteStep(p, ok)
    \/ \E p \in Procs : ListStep(p)
    \/ ProcessRestart
    \/ Tick

SpecWriteFail == Init /\ [][NextWriteFail]_vars

\* The annotation service, storage calls all succeeding.
NextAnn ==
    \/ \E p \in Procs : AnnCall(p)
    \/ \E p \in Procs : AnnStep(p, TRUE)
    \/ Tick

SpecAnn == Init /\ [][NextAnn]_vars

\* The annotation service called one call at a time, storage calls all
\* succeeding.
NextAnnSeq ==
    \/ \E p \in Procs : AnnSeqCall(p)
    \/ \E p \in Procs : AnnStep(p, TRUE)
    \/ Tick

SpecAnnSeq == Init /\ [][NextAnnSeq]_vars

\* The annotation service called one call at a time; any storage call may
\* fail.
NextAnnFail ==
    \/ \E p \in Procs : AnnSeqCall(p)
    \/ \E p \in Procs, ok \in BOOLEAN : AnnStep(p, ok)
    \/ Tick

SpecAnnFail == Init /\ [][NextAnnFail]_vars

\* The mock api: calls, their resumptions after the delay, the status
\* timers and the reset, in any order.
NextApi ==
    \/ \E p \in Procs : ApiCall(p)
    \/ \E p \in Procs : ApiResume(p)
    \/ TimerFires
    \/ ResetUploadedDocuments
    \/ Tick

SpecApi == Init /\ [][NextApi]_vars

\* api.login called by independent callers.
NextLogin ==
    \/ \E p \in Procs : CallLogin(p)
    \/ \E p \in Procs : LoginResume(p)

SpecLogin == Init /\ [][NextLogin]_vars

\* The AuthProvider: the session load of the mount, logins and logouts
\* by independent callers and process restarts, storage calls all
\* succeeding.
NextAuth ==
    \/ \E p \in Procs : AuthCall(p)
    \/ \E p \in Procs : AuthStep(p, TRUE)
    \/ LoadGetItem(TRUE)
    \/ LoadAfterGet
    \/ AuthRestart

SpecAuth == InitStored /\ [][NextAuth]_vars

\* No call in progress in the AuthProvider.
AuthQuiet == AllAuthIdle /\ loader.pc = "done"

\* The AuthProvider used one call at a time: a login or a logout is called,
\* and the process restarted, when no call is in progress.
NextAuthSeq ==
    \/ \E p \in Procs : AuthQuiet /\ AuthCall(p)
    \/ \E p \in Procs : AuthStep(p, TRUE)
    \/ LoadGetItem(TRUE)
    \/ LoadAfterGet
    \/ AuthQuiet /\ AuthRestart

SpecAuthSeq == InitStored /\ [][NextAuthSeq]_vars

\* The AuthProvider with any storage call failing.
NextAuthFail ==
    \/ \E p \in Procs : AuthCall(p)
    \/ \E p \in Procs, ok \in BOOLEAN : AuthStep(p, ok)
    \/ \E ok \in BOOLEAN : LoadGetItem(ok)
    \/ LoadAfterGet
    \/ AuthRestart

SpecAuthFail == InitStored /\ [][NextAuthFail]_vars

\* ---------------------------------------------------------- properties
FilesOf(documentId) == { path \in DOMAIN files : path.id = documentId }

MetaCount(docs, documentId) ==
    Cardinality({ i \in 1..Len(docs) : docs[i].documentId = documentId })

Referenced(path) ==
    \E i \in 1..Len(store.list) : store.list[i].localPath = path

True == <<"bool", TRUE>>
False == <<"bool", FALSE>>

\* C1: a saveDocumentOffline in which any storage or filesystem call failed
\* returns false, and the call never throws.
C1_SaveFalseOnFailure ==
    \A p \in Procs :
        (proc[p].pc = "done" /\ proc[p].op = "save") =>
            /\ proc[p].result[1] = "bool"
            /\ failed[p] => proc[p].result = False

\* C2: no public operation completes by throwing, whatever storage or
\* filesystem call fails.
C2_NoFailureEscapes ==
    /\ \A p \in Procs : proc[p].pc = "done" => proc[p].result[1] # "throw"
    /\ \A p \in Procs : aproc[p].pc = "done" => aproc[p].result[1] # "throw"

\* C3: between calls every document has at most one cached file, and it has
\* a file exactly when it has a metadata record.
C3_FilePairedWithMeta ==
    AllIdle =>
        \A d \in Docs :
            /\ Cardinality(FilesOf(d)) <= 1
            /\ (FilesOf(d) # {}) <=> HasMeta(store.list, d)

\* Two saves of one document, one after the other, both returning true.
TwoSaves ==
    /\ seqPrev2.op = "save" /\ seqPrev2.result = True
    /\ seqPrev.op = "save" /\ seqPrev.result = True
    /\ seqPrev.doc = seqPrev2.doc

\* C4: the metadata list never holds two records of one document, and after
\* two successive saves of a document its record is the one the second save
\* built, whose savedAt and file name are not older than the first one's.
C4_OneMetaPerDocument ==
    /\ \A d \in Docs : MetaCount(store.list, d) <= 1
    /\ TwoSaves =>
         /\ FindMeta(store.list, seqPrev.doc) = seqPrev.meta
         /\ seqPrev.meta.savedAt >= seqPrev2.meta.savedAt
         /\ seqPrev.meta.localPath.ts >= seqPrev2.meta.localPath.ts

C4_Witness ==
    /\ TwoSaves
    /\ seqPrev.meta.savedAt > seqPrev2.meta.savedAt
    /\ FindMeta(store.list, seqPrev.doc) = seqPrev.meta

\* Two saves of document d that overlapped, both returned true, q's write of
\* the metadata list being the last.
ConcurrentSaves(p, q, d) ==
    /\ p # q
    /\ proc[p].pc = "done" /\ proc[p].op = "save" /\ proc[p].doc = d
    /\ proc[q].pc = "done" /\ proc[q].op = "save" /\ proc[q].doc = d
    /\ proc[p].result = True /\ proc[q].result = True
    /\ ~proc[p].alone /\ ~proc[q].alone
    /\ lastSet = q

RacingAdds(p, q, d) ==
    /\ p # q
    /\ aproc[p].pc = "done" /\ aproc[p].op = "add" /\ aproc[p].doc = d
    /\ aproc[q].pc = "done" /\ aproc[q].op = "add" /\ aproc[q].doc = d
    /\ ~aproc[p].alone /\ ~aproc[q].alone
    /\ aproc[p].prior = aproc[q].prior
    /\ annLastSet = q

\* C6: when two addAnnotation calls on a document interleave their
\* read-modify-write, both return an annotation and the persisted list is
\* the list they read followed by the last writer's annotation alone.
C6_LostUpdate ==
    \A p, q \in Procs, d \in Docs :
        RacingAdds(p, q, d) =>
            /\ aproc[p].result = <<"annotation", aproc[p].newAnn>>
            /\ aproc[q].result = <<"annotation", aproc[q].newAnn>>
            /\ AnnotationsOf(annStore.list, d)
                 = Append(aproc[q].prior, aproc[q].newAnn)

C6_Witness ==
    \E p, q \in Procs, d \in Docs :
        /\ RacingAdds(p, q, d)
        /\ aproc[p].newAnn # aproc[q].newAnn
        /\ \A i \in 1..Len(AnnotationsOf(annStore.list, d)) :
              AnnotationsOf(annStore.list, d)[i] # aproc[p].newAnn

\* A getOfflineDocumentContent that found the record's file missing.
StaleRead(call) == call.op = "getContent" /\ call.stale

\* C7: a getOfflineDocumentContent that finds the file of the record gone
\* returns null and leaves no record of the document, and an
\* isDocumentOffline of the document right after it returns false.
C7_SelfHealingRead ==
    /\ StaleRead(seqPrev) =>
         /\ seqPrev.result[1] = "null"
         /\ ~HasMeta(store.list, seqPrev.doc)
    /\ (/\ StaleRead(seqPrev2)
        /\ seqPrev.op = "isOffline"
        /\ seqPrev.doc = seqPrev2.doc) => seqPrev.result = False

C7_Witness ==
    /\ StaleRead(seqPrev2)
    /\ seqPrev2.doc \in everSaved
    /\ seqPrev.op = "isOffline"
    /\ seqPrev.doc = seqPrev2.doc
    /\ seqPrev.result = False

\* A save of base64 content that returned true, followed by a call on the
\* same document.
AfterBase64Save ==
    /\ seqPrev2.op = "save" /\ seqPrev2.enc = "base64"
    /\ seqPrev2.result = True
    /\ seqPrev.doc = seqPrev2.doc

C9_InitIdempotent ==
    \A p \in Procs :
        (proc[p].pc = "done" /\ proc[p].op = "init") =>
            /\ proc[p].result[1] = "void"
            /\ dirExists
            /\ initialized

C9_Witness ==
    /\ \A p \in Procs : proc[p].pc = "done" /\ proc[p].op = "init"
    /\ \A p \in Procs : ~proc[p].alone
    /\ calls > Cardinality(Procs)
    /\ dirExists

\* A step of a removeOfflineDocument of p that runs alone on a document no
\* save was ever called for.
RemoveNeverCachedStep(p) ==
    /\ proc[p].op = "remove" /\ proc[p].pc # "done"
    /\ proc[p].alone
    /\ proc[p].doc \notin everSaved
    /\ proc'[p] # proc[p]

\* C10: removeOfflineDocument of a never-cached document neither creates nor
\* deletes a file, leaves the metadata list as it was, and returns true.
C10_RemoveNeverCached ==
    [][\A p \in Procs :
         RemoveNeverCachedStep(p) =>
            /\ files' = files
            /\ store'.list = store.list
            /\ proc'[p].pc = "done" => proc'[p].result = True]_vars

C10_Witness ==
    /\ seqPrev.op = "remove"
    /\ seqPrev.doc \notin everSaved
    /\ seqPrev.result = True
    /\ Len(store.list) > 0

\* C11: when a clearAllOfflineDocuments has returned true, and before the
\* next call, the metadata key is absent, the cache directory exists and
\* there is no file in it.
C11_ClearLeavesEmptyCache ==
    (AllIdle /\ seqPrev.op = "clear" /\ seqPrev.result = True) =>
        /\ ~store.present
        /\ GetOfflineDocumentsList(TRUE) = << >>
        /\ dirExists
        /\ files = NoFiles

\* The ids of the annotations of a list.
IdsOf(annotations) == { annotations[i].id : i \in 1..Len(annotations) }

\* Caller p has completed a removeAnnotation, alone, with the id returned by
\* the addAnnotation on the same document that came right before it.
AddThenRemove(p) ==
    /\ aproc[p].pc = "done" /\ aproc[p].alone
    /\ aproc[p].op = "remove"
    /\ aproc[p].before.op = "add"
    /\ aproc[p].before.doc = aproc[p].doc
    /\ aproc[p].before.result = <<"annotation", aproc[p].before.newAnn>>
    /\ aproc[p].annId = aproc[p].before.newAnn.id

UpdateWrites(p) ==
    /\ aproc[p].op = "update" /\ aproc[p].alone
    /\ aproc[p].pc = "ann_saveset"
    /\ aproc'[p].pc = "done"

\* Every group of a document other than documentId is, in the second
\* collection, where and what it was in the first.
OtherGroupsKept(all, allAfter, documentId) ==
    /\ Len(allAfter) >= Len(all)
    /\ \A g \in 1..Len(all) :
          /\ allAfter[g].documentId = all[g].documentId
          /\ all[g].documentId # documentId => allAfter[g] = all[g]
    /\ \A g \in (Len(all) + 1)..Len(allAfter) :
          allAfter[g].documentId = documentId

\* C13: an updateAnnotation of an existing annotation returns true and
\* changes, in that annotation, the fields the updates name and no other;
\* the other annotations of the document keep their value and place, and so
\* do the groups of the other documents.
C13_UpdateChangesNamedFields ==
    [][\A p \in Procs :
         UpdateWrites(p) =>
            LET old == AnnotationsOf(annStore.list, aproc[p].doc)
                new == AnnotationsOf(annStore'.list, aproc[p].doc)
                index == AnnotationIndex(old, aproc[p].annId)
                updates == aproc[p].updates
            IN /\ aproc'[p].result = True
               /\ index > 0
               /\ Len(new) = Len(old)
               /\ \A j \in 1..Len(old) : j # index => new[j] = old[j]
               /\ DOMAIN new[index] = DOMAIN old[index]
               /\ \A f \in DOMAIN old[index] :
                     new[index][f] = IF f \in DOMAIN updates THEN updates[f]
                                     ELSE old[index][f]
               /\ Len(annStore'.list) = Len(annStore.list)
               /\ OtherGroupsKept(annStore.list, annStore'.list,
                                  aproc[p].doc)]_vars

C13_Witness ==
    \E p \in Procs :
        /\ aproc[p].pc = "done" /\ aproc[p].alone
        /\ aproc[p].op = "update" /\ aproc[p].result = True
        /\ aproc[p].updates = [color |-> "#22c55e"]
        /\ Len(aproc[p].prior) = 2
        /\ AnnotationIndex(aproc[p].prior, aproc[p].annId) = 2
        /\ AnnotationsOf(annStore.list, aproc[p].doc)[2].color = "#22c55e"
        /\ AnnotationsOf(annStore.list, aproc[p].doc)[2].page = 2
        /\ AnnotationsOf(annStore.list, aproc[p].doc)[1] = aproc[p].prior[1]
        /\ Len(annStore.list) = 2

\* Caller p has completed an addAnnotation that ran alone.
AddDone(p) ==
    aproc[p].pc = "done" /\ aproc[p].alone /\ aproc[p].op = "add"

\* Caller p has completed, alone, a getAnnotations of the document of the
\* addAnnotation that came right before it.
AddThenGet(p) ==
    /\ aproc[p].pc = "done" /\ aproc[p].alone
    /\ aproc[p].op = "getAnnotations"
    /\ aproc[p].before.op = "add"
    /\ aproc[p].before.doc = aproc[p].doc

\* C14: an addAnnotation returns an annotation with a generated id and a
\* creation time and with the fields its caller supplied, the persisted
\* list of the document is then the list it had followed by that
\* annotation, and that is what a getAnnotations right after it returns.
C14_AddAppends ==
    \A p \in Procs :
        /\ AddDone(p) =>
              /\ aproc[p].result[1] = "annotation"
              /\ aproc[p].result[2].id \in [ts : Clock, rnd : Rnd]
              /\ aproc[p].result[2].createdAt \in Clock
              /\ \A f \in DOMAIN aproc[p].input :
                    aproc[p].result[2][f] = aproc[p].input[f]
              /\ AnnotationsOf(annStore.list, aproc[p].doc)
                   = Append(aproc[p].prior, aproc[p].result[2])
        /\ AddThenGet(p) =>
              /\ aproc[p].before.result[1] = "annotation"
              /\ aproc[p].result
                   = <<"list", Append(aproc[p].before.prior,
                                      aproc[p].before.result[2])>>

C14_Witness ==
    \E p \in Procs :
        /\ AddThenGet(p)
        /\ Len(aproc[p].before.prior) = 2
        /\ Len(aproc[p].result[2]) = 3
        /\ aproc[p].result[2][3] = aproc[p].before.newAnn
        /\ aproc[p].before.newAnn.page = 1
        /\ aproc[p].before.newAnn.color = "#fbbf24"

\* C15: the annotation an addAnnotation returns is in the persisted list of
\* its document; an add whose write failed returns null.
C15_AddNullUnlessPersisted ==
    \A p \in Procs :
        (AddDone(p) /\ aproc[p].result[1] = "annotation") =>
            aproc[p].result[2].id
                \in IdsOf(AnnotationsOf(annStore.list, aproc[p].doc))

\* A step of a removeAnnotation or updateAnnotation of p that runs alone.
RemoveOrUpdateStep(p) ==
    /\ aproc[p].op \in {"remove", "update"} /\ aproc[p].alone
    /\ aproc[p].pc # "done"
    /\ aproc'[p] # aproc[p]

\* The id p passed is the id of an annotation persisted for its document.
IdPersisted(p) ==
    aproc[p].annId \in IdsOf(AnnotationsOf(annStore.list, aproc[p].doc))

\* C16: a removeAnnotation or updateAnnotation whose id matches no
\* annotation of the document returns false without writing, leaving the
\* persisted collection as it is; one that returns true had a match.
C16_NotFoundNoWrite ==
    [][\A p \in Procs :
         RemoveOrUpdateStep(p) =>
            /\ ~IdPersisted(p) =>
                  /\ annStore' = annStore
                  /\ aproc'[p].pc = "done"
                  /\ aproc'[p].result = False
            /\ (aproc'[p].pc = "done" /\ aproc'[p].result = True) =>
                  IdPersisted(p)]_vars

C16_Witness ==
    \E p \in Procs :
        /\ aproc[p].pc = "done" /\ aproc[p].alone
        /\ aproc[p].op = "remove" /\ aproc[p].result = False
        /\ aproc[p].before.op = "update" /\ aproc[p].before.result = False
        /\ aproc[p].before.doc = aproc[p].doc
        /\ Len(AnnotationsOf(annStore.list, aproc[p].doc)) > 0
        /\ ~IdPersisted(p)

\* No two groups of the persisted collection are of one document.
GroupsDistinct ==
    \A i, j \in 1..Len(annStore.list) :
        annStore.list[i].documentId = annStore.list[j].documentId => i = j

\* C17: the persisted collection has one group for each document with an
\* annotation: no two groups of one document, no group without annotations.
C17_OneGroupPerAnnotatedDocument ==
    /\ GroupsDistinct
    /\ \A i \in 1..Len(annStore.list) :
          Len(annStore.list[i].annotations) > 0

\* The step in which a saveAnnotations of p, running alone, writes the
\* collection and returns.
SaveWrites(p) ==
    /\ aproc[p].op = "saveAnnotations" /\ aproc[p].alone
    /\ aproc[p].pc = "ann_saveset"
    /\ aproc'[p].pc = "done"

\* C18: saveAnnotations returns true and leaves the document with a group
\* holding exactly the list given, in the place of the group the document
\* had or, when it had none, after all others; the groups of the other
\* documents keep their value and place.
C18_SaveReplacesGroup ==
    [][\A p \in Procs :
         SaveWrites(p) =>
            LET documentId == aproc[p].doc
                index == GroupIndex(annStore.list, documentId)
                indexAfter == GroupIndex(annStore'.list, documentId)
            IN /\ aproc'[p].result = True
               /\ indexAfter > 0
               /\ annStore'.list[indexAfter].annotations
                    = aproc[p].annotations
               /\ OtherGroupsKept(annStore.list, annStore'.list, documentId)
               /\ IF index > 0
                  THEN /\ indexAfter = index
                       /\ Len(annStore'.list) = Len(annStore.list)
                  ELSE /\ indexAfter = Len(annStore'.list)
                       /\ Len(annStore'.list) = Len(annStore.list) + 1]_vars

C18_Witness ==
    \E p \in Procs :
        /\ aproc[p].pc = "done" /\ aproc[p].alone
        /\ aproc[p].op = "saveAnnotations" /\ aproc[p].result = True
        /\ Len(annStore.list) = 2
        /\ annStore.list[1].documentId = aproc[p].doc
        /\ Len(annStore.list[1].annotations) = 2
        /\ Len(annStore.list[2].annotations) = 1

\* Document d is in the list.
Listed(documents, d) == \E i \in 1..Len(documents) : documents[i] = d

\* The step in which the oldest status timer fires.
TimerStep == timers # << >> /\ timers' = Tail(timers)

\* C19: the document an uploadDocument returns has status enviado and is
\* then in the list as returned; and when its status timer fires, the list
\* not having been reset nor a status set through its id meanwhile, the
\* list holds that document with status em_analise and nothing else
\* changed.
C19_UploadThenInAnalysis ==
    [][/\ \A p \in Procs :
            (api[p].pc = "upl_delay" /\ api'[p].pc = "done") =>
               /\ api'[p].result[2]
               /\ api'[p].result[3].status = "enviado"
               /\ Listed(uploadedDocuments', api'[p].result[3])
       /\ (TimerStep /\ Head(timers).clean) =>
              Listed(uploadedDocuments',
                     [Head(timers).document EXCEPT !.status = "em_analise"])
      ]_vars

\* enviado, then em_analise, then aprovado or rejeitado.
Rank(status) ==
    CASE status = "enviado"    -> 0
      [] status = "em_analise" -> 1
      [] OTHER                 -> 2

\* C20: the status of a document of the list never moves back.
C20_StatusOnlyAdvances ==
    [][Len(uploadedDocuments') = Len(uploadedDocuments) =>
         \A i \in 1..Len(uploadedDocuments) :
            uploadedDocuments'[i].id = uploadedDocuments[i].id =>
               Rank(uploadedDocuments'[i].status)
                  >= Rank(uploadedDocuments[i].status)]_vars

TypeOK ==
    /\ initialized \in BOOLEAN
    /\ dirExists \in BOOLEAN
    /\ now \in Clock
    /\ calls \in Nat
    /\ \A p \in Procs : api[p].status \in Statuses \cup {"none"}
    /\ \A i \in 1..Len(uploadedDocuments) :
          uploadedDocuments[i].status \in Statuses
    /\ lastSet \in Procs \cup {0}
    /\ state.isAuthenticated \in BOOLEAN
    /\ state.isLoading \in BOOLEAN
    /\ authStore.present \in BOOLEAN
    /\ loader.pc \in {"load_get", "load_after", "done"}
    /\ fresh \in BOOLEAN

\* Callers p and q have both returned true from calls on different
\* documents that were in progress together: p from a saveDocumentOffline,
\* q from a saveDocumentOffline or a removeOfflineDocument.
InterleavedPair(p, q) ==
    /\ p # q
    /\ proc[p].pc = "done" /\ proc[q].pc = "done"
    /\ proc[p].op = "save" /\ proc[q].op \in {"save", "remove"}
    /\ proc[p].doc # proc[q].doc
    /\ proc[p].result = True /\ proc[q].result = True

\* C24: when OfflineService calls on different documents interleave and
\* have all returned true, the metadata list holds a record of every
\* document saved and none of a document removed.
C24_InterleavedUpdatesAllKept ==
    \A p, q \in Procs :
        InterleavedPair(p, q) =>
            /\ HasMeta(store.list, proc[p].doc)
            /\ proc[q].op = "save" => HasMeta(store.list, proc[q].doc)
            /\ proc[q].op = "remove" => ~HasMeta(store.list, proc[q].doc)

\* C25: files not being deleted behind the service's back, whenever no
\* OfflineService call is in progress the localPath of every metadata
\* record is that of a file on disk.
C25_RecordsPointToFiles ==
    AllIdle =>
        \A i \in 1..Len(store.list) : FileExists(store.list[i].localPath)

\* The step in which a saveDocumentOffline of p returns from init() or from
\* the file write, which it does only when that call failed.
SaveFailsEarly(p) ==
    /\ proc[p].op = "save"
    /\ proc[p].pc \in {"init_info", "init_mkdir", "save_write"}
    /\ proc'[p].pc = "done"

\* The step in which a base64 getOfflineDocumentContent of p returns, the
\* call before it a save of the same document that returned false and the
\* one before that a base64 save of it that returned true.
ReadAfterFailedSave(p) ==
    /\ proc[p].op = "getContent" /\ proc[p].enc = "base64"
    /\ proc[p].alone
    /\ proc[p].pc # "done" /\ proc'[p].pc = "done"
    /\ seqPrev.op = "save" /\ seqPrev.result = False
    /\ seqPrev.doc = proc[p].doc
    /\ seqPrev2.op = "save" /\ seqPrev2.result = True
    /\ seqPrev2.enc = "base64"
    /\ seqPrev2.doc = proc[p].doc

\* C26: a saveDocumentOffline whose init() or file write fails returns
\* false with the metadata list (and the files) as they were, and a copy
\* of the document cached before it is still what
\* getOfflineDocumentContent returns after it.
C26_FailedSaveKeepsCachedCopy ==
    [][\A p \in Procs :
         /\ SaveFailsEarly(p) =>
               /\ proc'[p].result = False
               /\ store' = store
               /\ files' = files
         /\ ReadAfterFailedSave(p) =>
               proc'[p].result = <<"content", seqPrev2.content>>]_vars

C26_Witness ==
    /\ seqPrev2.op = "save" /\ seqPrev2.result = False
    /\ HasMeta(store.list, seqPrev2.doc)
    /\ seqPrev.op = "getContent" /\ seqPrev.doc = seqPrev2.doc
    /\ seqPrev.result[1] = "content"

\* No two documents of the list have the same id.
IdsDistinct(documents) ==
    \A i, j \in 1..Len(documents) :
        i # j => documents[i].id # documents[j].id

\* Documents a and b differ in their status at most.
SameButStatus(a, b) == [a EXCEPT !.status = "none"] = [b EXCEPT !.status = "none"]

\* The step changes the list in nothing but the status of documents that
\* are, but for their status, document d.
OnlyStatusOf(d) ==
    /\ Len(uploadedDocuments') = Len(uploadedDocuments)
    /\ \A i \in 1..Len(uploadedDocuments) :
          \/ uploadedDocuments'[i] = uploadedDocuments[i]
          \/ /\ SameButStatus(uploadedDocuments[i], d)
             /\ SameButStatus(uploadedDocuments'[i], d)

\* C30: the ids of the documents of the list are pairwise distinct, and a
\* status timer changes nothing but the status of the document its upload
\* built (nothing at all when the list was reset meanwhile).
C30_DistinctIdsOwnDocumentOnly ==
    [][/\ IdsDistinct(uploadedDocuments')
       /\ TimerStep => OnlyStatusOf(Head(timers).document)
      ]_vars

\* C21: login returns success with the mock user and the token
\* mock-jwt-token-123456 exactly when matricula is 123456 and senha is
\* aluno123; for every other pair it returns success false with an error
\* message and neither user nor token.
C21_LoginOnlyMockCredentials ==
    \A p \in Procs :
        (api[p].pc = "done" /\ api[p].op = "login") =>
            LET response == api[p].result[2] IN
            IF /\ api[p].credentials.matricula = "123456"
               /\ api[p].credentials.senha = "aluno123"
            THEN /\ response.success
                 /\ DOMAIN response = {"success", "user", "token"}
                 /\ response.user = MOCK_USER
                 /\ response.token = "mock-jwt-token-123456"
            ELSE /\ ~response.success
                 /\ DOMAIN response = {"success", "error"}
                 /\ response.error # ""

C21_Witness ==
    /\ api[1].pc = "done" /\ api[1].op = "login"
    /\ api[1].credentials = [matricula |-> "123456", senha |-> "123456"]
    /\ ~api[1].result[2].success
    /\ api[2].pc = "done" /\ api[2].op = "login"
    /\ api[2].result[2].success

\* The entry exists and its text is that of an object with a user and a
\* token in it.
StoredSession(entry) ==
    /\ entry.present
    /\ entry.text[1] = "json"
    /\ entry.text[2][1] = "obj"
    /\ {"user", "token"} \subseteq DOMAIN entry.text[2][2]
    /\ \A f \in {"user", "token"} :
          entry.text[2][2][f] \notin {JNull, JStr("")}

StoredUser(entry) == entry.text[2][2].user

\* C22: once loadStoredSession has returned, and until a login or logout
\* is called, isLoading is false; the state is authenticated with the
\* stored user if the stored entry exists and holds a user and a token, and
\* unauthenticated with user null if the entry is absent, is not JSON or
\* lacks either.
C22_StartupRestoresStoredSession ==
    (loader.pc = "done" /\ fresh) =>
        /\ ~state.isLoading
        /\ IF StoredSession(authStore)
           THEN /\ state.isAuthenticated
                /\ state.user = StoredUser(authStore)
           ELSE /\ ~state.isAuthenticated
                /\ state.user = JNull

C22_Witness ==
    /\ loader.pc = "done" /\ fresh
    /\ calls = 0
    /\ state.isAuthenticated
    /\ state.user = JObj(MOCK_USER)

\* The step in which the call of p returns.
AuthReturns(p) == auth[p].pc # "done" /\ auth'[p].pc = "done"

\* The process was restarted after a login or logout that ran alone to its
\* return, and loadStoredSession has returned since.
RestartedAfter(op) ==
    /\ loader.pc = "done" /\ fresh
    /\ authPrev.op = op

\* C23: when a login returns success the stored entry already holds the
\* user and the token and the state is authenticated with that user; when
\* a logout returns after a removal that succeeded the entry is gone and
\* the state is unauthenticated with user null; and a process restarted
\* after such a login ends its load authenticated with that user, one
\* restarted after such a logout unauthenticated.
C23_SessionSurvivesRestart ==
    [][/\ \A p \in Procs :
            (AuthReturns(p) /\ auth[p].op = "login"
                /\ auth'[p].result[2].success) =>
               /\ StoredSession(authStore)
               /\ StoredUser(authStore) = JObj(MOCK_USER)
               /\ authStore' = authStore
               /\ state' = [user |-> JObj(MOCK_USER),
                            isAuthenticated |-> TRUE, isLoading |-> FALSE]
       /\ \A p \in Procs :
            (AuthReturns(p) /\ auth[p].op = "logout" /\ ~auth'[p].failed) =>
               /\ ~authStore'.present
               /\ state' = [user |-> JNull, isAuthenticated |-> FALSE,
                            isLoading |-> FALSE]
       /\ (RestartedAfter("login")' /\ authPrev'.result[2].success) =>
               /\ state'.isAuthenticated
               /\ state'.user = JObj(MOCK_USER)
       /\ (RestartedAfter("logout")' /\ authPrev'.result = <<"void">>) =>
               /\ ~state'.isAuthenticated
               /\ state'.user = JNull
      ]_vars

C23_Witness ==
    /\ RestartedAfter("login")
    /\ authPrev.result[2].success
    /\ state.isAuthenticated
    /\ calls = 3

\* C27: in every AuthState, whatever the interleaving of
\* loadStoredSession, login and logout, isAuthenticated is true exactly
\* when user is not null.
C27_AuthenticatedIffUser ==
    state.isAuthenticated <=> state.user # JNull

C27_Witness ==
    /\ state.isAuthenticated
    /\ state.user = JObj(MOCK_USER)
    /\ loader.pc = "load_after"
    /\ \E p \in Procs : auth[p].pc = "logout_after"

\* C28: whenever no loadStoredSession, login or logout is in progress,
\* storage calls all succeeding, the state is authenticated exactly when
\* the stored entry holds a session.
C28_StateAgreesWithStore ==
    AuthQuiet => (state.isAuthenticated <=> StoredSession(authStore))

\* A step of a login of p other than the one that stores the session and
\* the one after it.
LoginStepShortOfSuccess(p) ==
    /\ auth'[p].op = "login"
    /\ auth'[p] # auth[p]
    /\ auth[p].pc # "login_after"
    /\ auth'[p].pc # "login_after"

\* C29: a login that does not succeed (wrong credentials, or setItem
\* throwing) returns success false with an error and isLoading false, and
\* no step of it changes user, isAuthenticated or the stored entry; a
\* logout whose removeItem throws changes neither the state nor the entry.
C29_FailedAttemptChangesNothing ==
    [][\A p \in Procs :
         /\ LoginStepShortOfSuccess(p) =>
               /\ state'.user = state.user
               /\ state'.isAuthenticated = state.isAuthenticated
               /\ authStore' = authStore
         /\ (AuthReturns(p) /\ auth[p].op = "login") =>
               /\ ~state'.isLoading
               /\ auth'[p].result[2].success <=> auth[p].pc = "login_after"
               /\ ~auth'[p].result[2].success =>
                     "error" \in DOMAIN auth'[p].result[2]
         /\ (AuthReturns(p) /\ auth[p].op = "logout" /\ auth'[p].failed) =>
               /\ state' = state
               /\ authStore' = authStore]_vars

C29_Witness ==
    \E p \in Procs :
        /\ auth[p].pc = "done" /\ auth[p].op = "login"
        /\ auth[p].failed
        /\ ~auth[p].result[2].success
        /\ state.isAuthenticated
        /\ ~state.isLoading

====
